---- MODULE Spec2Model ----
(***************************************************************************)
(* A model of ape-starknet's provider utilities:                           *)
(*   - handle_client_error / handle_client_errors (utils/__init__.py)      *)
(*   - to_checksum_address / is_checksum_address   (utils/__init__.py)     *)
(*   - get_dict_from_tx_info and the __execute__ unwrap of get_receipt     *)
(*   - the provider's operations and the way errors leave them             *)
(*   - extract_trace_data, and the token map of TokenManager (tokens.py)   *)
(* Python strings are sequences of one-character strings, Python values    *)
(* are records [t |-> type, v |-> payload], exceptions are records         *)
(* [id, kind, message] whose id is the identity of the exception object.   *)
(***************************************************************************)
EXTENDS Integers, Sequences, FiniteSets, TLC

VARIABLES
    hceErr,     \* handle_client_error: the exception handed in
    hceOut,     \* handle_client_error: what it returned or raised
    pedersen,   \* the hash function pedersen_hash(0, .) of this run
    csIn,       \* to_checksum_address: the address handed in
    csOut,      \* to_checksum_address(csIn)
    csAgain,    \* to_checksum_address(to_checksum_address(csIn))
    icaIn,      \* is_checksum_address: the value handed in
    icaOut,     \* is_checksum_address(icaIn)
    txn_info,   \* get_receipt: the transaction the client returned
    receipt,    \* get_receipt: the receipt the client returned
    rcOut,      \* get_receipt: the merged record, the warnings and the exception
    entry,      \* the provider operation the caller invoked, with its argument
    stack,      \* the frames of the operations running, the innermost last
    flying,     \* the exception on its way up the stack
    origin,     \* the exception as it was first raised
    classified, \* what each handle_client_errors on the way was given and raised
    nextId,     \* the identity of the next exception object
    delivered,  \* what the caller got in the end
    client,     \* StarknetProvider.client: whether the provider holds a client
    cached_code, \* StarknetProvider.cached_code: the code cached for each address int
    fetched,    \* how often get_code_sync has answered for each address int
    out,        \* the last call of the provider: its arguments, its requests, its outcome
    gens,       \* the generators get_transactions_by_block has returned
    requests,   \* the requests the generators have made of the client, in order
    trace,      \* extract_trace_data: the trace handed in, which the call writes to
    trOut,      \* extract_trace_data: the calls made, the last one's argument and value
    fnBody,     \* handle_client_errors: how the decorated function ended
    fnOut,      \* handle_client_errors: what the caller got
    additional_tokens, \* TokenManager.additional_tokens: name -> network -> address
    network,    \* the name of the provider's network
    tkOut       \* the last add_token call with its arguments

errVars == <<hceErr, hceOut>>
csVars == <<csIn, csOut, csAgain, icaIn, icaOut>>
rcVars == <<txn_info, receipt, rcOut>>
callVars == <<entry, stack, flying, origin, classified, nextId, delivered>>
provVars == <<client, cached_code, fetched, out>>
iterVars == <<gens, requests>>
traceVars == <<trace, trOut>>
fnVars == <<fnBody, fnOut>>
tokVars == <<additional_tokens, network, tkOut>>
vars == <<errVars, pedersen, csVars, rcVars, callVars, provVars, iterVars, traceVars, fnVars, tokVars>>

\* what the steps of one part of the model leave alone
exceptErr == <<iterVars, traceVars, fnVars, tokVars, pedersen, csVars, rcVars, callVars, provVars>>
exceptChecksum == <<iterVars, traceVars, fnVars, tokVars, errVars, rcVars, callVars, provVars>>
exceptReceipt == <<iterVars, traceVars, fnVars, tokVars, errVars, csVars, callVars, provVars>>
exceptCalls == <<iterVars, traceVars, fnVars, tokVars, errVars, pedersen, csVars, rcVars, provVars>>
exceptProvider == <<errVars, pedersen, csVars, rcVars, callVars, iterVars, traceVars, fnVars, tokVars>>
exceptIter == <<errVars, pedersen, csVars, rcVars, callVars, cached_code, fetched, out, traceVars, fnVars, tokVars>>
exceptTrace == <<errVars, pedersen, csVars, rcVars, callVars, provVars, iterVars, fnVars, tokVars>>
exceptTokens == <<errVars, pedersen, csVars, rcVars, callVars, provVars, iterVars, traceVars, fnVars>>
exceptFn == <<errVars, pedersen, csVars, rcVars, callVars, provVars, iterVars, traceVars, tokVars>>

(***************************************************************************)
(* Bounds of the model.                                                    *)
(***************************************************************************)
MaxSegs == 3        \* an exception message is made of at most MaxSegs segments
MaxAddrDigits == 2  \* an address is tried with at most MaxAddrDigits hex digits
MaxAddrBytes == 1   \* an address given as bytes has at most MaxAddrBytes bytes
MaxSeed == 2        \* the hash functions tried are those of the seeds 0..MaxSeed
MaxFelt == 2        \* the felts of a transaction are 0..MaxFelt
MaxCalldata == 6    \* a transaction carries at most MaxCalldata felts of calldata
MaxHeight == 2      \* the latest block is one of the heights 0..MaxHeight
MaxBlockTxns == 2   \* a block holds at most MaxBlockTxns transactions
MaxInternalCalls == 2 \* a trace holds at most MaxInternalCalls internal calls

(***************************************************************************)
(* Python values.                                                          *)
(***************************************************************************)
PyStr(chars) == [t |-> "str", v |-> chars]
PyNum(chars) == [t |-> "int", v |-> chars]
PyList(items) == [t |-> "list", v |-> items]
PyDict(pairs) == [t |-> "dict", v |-> pairs]
PyBool(b) == [t |-> "bool", v |-> <<b>>]
PyNone == [t |-> "NoneType", v |-> <<>>]

MinOf(S) == CHOOSE x \in S : \A y \in S : x <= y
MaxOf(S) == CHOOSE x \in S : \A y \in S : x >= y

(***************************************************************************)
(* Python str operations used by the code.                                 *)
(***************************************************************************)
PyWhitespace == {" ", "\n", "\t", "\r"}
LineBreaks == {"\n", "\r"}

\* the indices at which sub occurs in s
Occurrences(s, sub) ==
    {i \in 1..(Len(s) - Len(sub) + 1) : SubSeq(s, i, i + Len(sub) - 1) = sub}

\* sub in s
Contains(s, sub) == Occurrences(s, sub) # {}

\* s.split(sep, 1)[-1]: the text after the first sep, the whole of s without one
SplitOnceLast(s, sep) ==
    IF Contains(s, sep)
    THEN SubSeq(s, MinOf(Occurrences(s, sep)) + Len(sep), Len(s))
    ELSE s

\* s.split(sep)[-1]: the text after the last sep, the whole of s without one
SplitLast(s, sep) ==
    IF Contains(s, sep)
    THEN SubSeq(s, MaxOf(Occurrences(s, sep)) + Len(sep), Len(s))
    ELSE s

\* s.strip()
Strip(s) ==
    LET keep == {i \in 1..Len(s) : s[i] \notin PyWhitespace}
    IN IF keep = {} THEN <<>> ELSE SubSeq(s, MinOf(keep), MaxOf(keep))

\* s.splitlines(): no line for an empty s, none after a final line break
RECURSIVE SplitLines(_)
SplitLines(s) ==
    LET breaks == {i \in 1..Len(s) : s[i] \in LineBreaks}
    IN IF s = <<>> THEN <<>>
       ELSE IF breaks = {} THEN <<s>>
       ELSE LET i == MinOf(breaks)
                n == IF s[i] = "\r" /\ i < Len(s) /\ s[i + 1] = "\n" THEN 2 ELSE 1
            IN <<SubSeq(s, 1, i - 1)>> \o SplitLines(SubSeq(s, i + n, Len(s)))

\* s.replace(old, new) for one-character old and new
ReplaceChar(s, old, new) == [i \in 1..Len(s) |-> IF s[i] = old THEN new ELSE s[i]]

(***************************************************************************)
(* json.loads, for documents without escapes, fractions and exponents.     *)
(* A parse gives [ok, val, next]: next is the index after the value.       *)
(***************************************************************************)
JsonWs == {" ", "\n", "\t", "\r"}
Digits == {"0", "1", "2", "3", "4", "5", "6", "7", "8", "9"}
JsonFail == [ok |-> FALSE, val |-> PyNone, next |-> 0]
JsonOk(val, next) == [ok |-> TRUE, val |-> val, next |-> next]

RECURSIVE SkipWs(_, _)
SkipWs(s, i) == IF i <= Len(s) /\ s[i] \in JsonWs THEN SkipWs(s, i + 1) ELSE i

StartsWithAt(s, i, lit) ==
    i + Len(lit) - 1 <= Len(s) /\ SubSeq(s, i, i + Len(lit) - 1) = lit

\* s[i] is the opening quote
ParseString(s, i) ==
    LET ends == {j \in (i + 1)..Len(s) : s[j] = "\""}
    IN IF ends = {} THEN JsonFail
       ELSE LET j == MinOf(ends)
                body == SubSeq(s, i + 1, j - 1)
            IN IF \E k \in 1..Len(body) : body[k] \in {"\n", "\r", "\t", "\\"}
               THEN JsonFail
               ELSE JsonOk(PyStr(body), j + 1)

RECURSIVE DigitsEnd(_, _)
DigitsEnd(s, i) == IF i <= Len(s) /\ s[i] \in Digits THEN DigitsEnd(s, i + 1) ELSE i

\* s[i] is a digit or the minus sign
ParseNumber(s, i) ==
    LET st == IF s[i] = "-" THEN i + 1 ELSE i
    IN IF st > Len(s) \/ s[st] \notin Digits THEN JsonFail
       ELSE LET e == IF s[st] = "0" THEN st + 1 ELSE DigitsEnd(s, st)
            IN JsonOk(PyNum(SubSeq(s, i, e - 1)), e)

RECURSIVE ParseValue(_, _)
RECURSIVE ParseElements(_, _, _)
RECURSIVE ParseMembers(_, _, _)

ParseValue(s, i) ==
    IF i > Len(s) THEN JsonFail
    ELSE CASE s[i] = "\"" -> ParseString(s, i)
           [] s[i] = "{" ->
                LET j == SkipWs(s, i + 1)
                IN IF j <= Len(s) /\ s[j] = "}" THEN JsonOk(PyDict(<<>>), j + 1)
                   ELSE ParseMembers(s, j, <<>>)
           [] s[i] = "[" ->
                LET j == SkipWs(s, i + 1)
                IN IF j <= Len(s) /\ s[j] = "]" THEN JsonOk(PyList(<<>>), j + 1)
                   ELSE ParseElements(s, j, <<>>)
           [] StartsWithAt(s, i, <<"n", "u", "l", "l">>) -> JsonOk(PyNone, i + 4)
           [] StartsWithAt(s, i, <<"t", "r", "u", "e">>) -> JsonOk(PyBool(TRUE), i + 4)
           [] StartsWithAt(s, i, <<"f", "a", "l", "s", "e">>) -> JsonOk(PyBool(FALSE), i + 5)
           [] s[i] \in Digits \cup {"-"} -> ParseNumber(s, i)
           [] OTHER -> JsonFail

\* the elements of an array from index i on, acc the ones read so far
ParseElements(s, i, acc) ==
    LET r == ParseValue(s, i)
    IN IF ~r.ok THEN JsonFail
       ELSE LET j == SkipWs(s, r.next)
            IN IF j > Len(s) THEN JsonFail
               ELSE IF s[j] = "," THEN ParseElements(s, SkipWs(s, j + 1), Append(acc, r.val))
               ELSE IF s[j] = "]" THEN JsonOk(PyList(Append(acc, r.val)), j + 1)
               ELSE JsonFail

\* the members of an object from index i on, acc the pairs read so far
ParseMembers(s, i, acc) ==
    IF i > Len(s) \/ s[i] # "\"" THEN JsonFail
    ELSE LET k == ParseString(s, i)
         IN IF ~k.ok THEN JsonFail
            ELSE LET j == SkipWs(s, k.next)
                 IN IF j > Len(s) \/ s[j] # ":" THEN JsonFail
                    ELSE LET r == ParseValue(s, SkipWs(s, j + 1))
                         IN IF ~r.ok THEN JsonFail
                            ELSE LET m == SkipWs(s, r.next)
                                     got == Append(acc, <<k.val.v, r.val>>)
                                 IN IF m > Len(s) THEN JsonFail
                                    ELSE IF s[m] = "," THEN ParseMembers(s, SkipWs(s, m + 1), got)
                                    ELSE IF s[m] = "}" THEN JsonOk(PyDict(got), m + 1)
                                    ELSE JsonFail

\* json.loads(s): [ok |-> FALSE] stands for JSONDecodeError
Loads(s) ==
    LET r == ParseValue(s, SkipWs(s, 1))
    IN IF r.ok /\ SkipWs(s, r.next) = Len(s) + 1 THEN r ELSE JsonFail

\* key in d, for a parsed dict d
DictHas(d, key) == \E i \in 1..Len(d.v) : d.v[i][1] = key

\* d[key] for a parsed dict d that has the key: the last pair of that key
DictGet(d, key) == d.v[MaxOf({i \in 1..Len(d.v) : d.v[i][1] = key})][2]

(***************************************************************************)
(* Exceptions.  An exception object is [id, kind, message]: id tells one   *)
(* object from another, kind is its class, message a Python value.         *)
(***************************************************************************)
ClientExceptions == {"ClientError", "TransactionRejectedError"}
ApeExceptions ==
    {"OutOfGasError", "ContractLogicError", "StarknetProviderError",
     "TransactionError", "ProviderNotConnectedError"}
OtherExceptions == {"IndexError", "TypeError"}
ClassifiedErrors == {"OutOfGasError", "ContractLogicError", "StarknetProviderError"}

Exc(id, kind, message) == [id |-> id, kind |-> kind, message |-> message]
NoExc == Exc(0, "none", PyNone)

FeeMarker ==
    <<"A", "c", "t", "u", "a", "l", " ", "f", "e", "e", " ", "e", "x", "c", "e",
      "e", "d", "e", "d", " ", "m", "a", "x", " ", "f", "e", "e">>
ErrorMessageMarker ==
    <<"E", "r", "r", "o", "r", " ", "m", "e", "s", "s", "a", "g", "e", ":">>
ErrorAtPcMarker == <<"E", "r", "r", "o", "r", " ", "a", "t", " ", "p", "c", "=">>
MessageKey == <<"m", "e", "s", "s", "a", "g", "e">>
Colon == <<":">>

Returned(e) == [raised |-> FALSE, err |-> e]
Raised(e) == [raised |-> TRUE, err |-> e]

\* isinstance(err, ApeException) or not isinstance(err, (ClientError, TransactionRejectedError))
PassesThrough(err) == err.kind \in ApeExceptions \/ err.kind \notin ClientExceptions

\* the message after the ClientError prefix is removed
StripClientPrefix(err) ==
    IF err.kind = "ClientError"
    THEN Strip(SplitOnceLast(err.message.v, Colon))
    ELSE err.message.v

\* the out-of-gas rule tried after the rules of the revert messages
IsOutOfGasUnlessRevert(err) ==
    /\ Contains(err.message.v, FeeMarker)
    /\ ~Contains(StripClientPrefix(err), ErrorMessageMarker)
    /\ ~Contains(StripClientPrefix(err), ErrorAtPcMarker)

\* "Actual fee exceeded max fee" in err_msg
IsOutOfGas(err) == Contains(err.message.v, FeeMarker)

\* err_msg.split("Error message:")[-1].splitlines()[0].strip(); [0] of no lines is an IndexError
RevertMessage(err_msg) ==
    LET lines == SplitLines(SplitLast(err_msg, ErrorMessageMarker))
    IN IF lines = <<>> THEN [exc |-> "IndexError", msg |-> PyNone]
       ELSE [exc |-> "none", msg |-> PyStr(Strip(lines[1]))]

\* the message of the provider error: the JSON document's `message` when there is one
JsonMessage(err_msg) ==
    LET d == Loads(err_msg)
        keep == [exc |-> "none", msg |-> PyStr(err_msg)]
        typeError == [exc |-> "TypeError", msg |-> PyNone]
    IN IF ~d.ok THEN keep
       ELSE CASE d.val.t = "dict" ->
                    IF DictHas(d.val, MessageKey)
                    THEN [exc |-> "none", msg |-> DictGet(d.val, MessageKey)]
                    ELSE keep
              [] d.val.t = "list" ->
                    IF \E i \in 1..Len(d.val.v) :
                          d.val.v[i].t = "str" /\ d.val.v[i].v = MessageKey
                    THEN typeError
                    ELSE keep
              [] d.val.t = "str" ->
                    IF Contains(d.val.v, MessageKey) THEN typeError ELSE keep
              [] OTHER -> typeError

\* handle_client_error(err); id is the identity of the object it creates, if any
HandleClientError(err, id) ==
    IF PassesThrough(err) THEN Returned(err)
    ELSE IF IsOutOfGas(err)
    THEN Returned(Exc(id, "OutOfGasError", PyNone))
    ELSE LET err_msg == StripClientPrefix(err)
         IN IF Contains(err_msg, ErrorMessageMarker)
            THEN LET r == RevertMessage(err_msg)
                 IN IF r.exc # "none" THEN Raised(Exc(id, r.exc, PyNone))
                    ELSE Returned(Exc(id, "ContractLogicError", r.msg))
            ELSE IF Contains(err_msg, ErrorAtPcMarker)
            THEN Returned(Exc(id, "ContractLogicError",
                              PyStr(ReplaceChar(Strip(err_msg), "\n", " "))))
            ELSE LET r == JsonMessage(Strip(err_msg))
                 IN IF r.exc # "none" THEN Raised(Exc(id, r.exc, PyNone))
                    ELSE Returned(Exc(id, "StarknetProviderError", r.msg))

(***************************************************************************)
(* The exceptions handle_client_error is tried on: a message is up to      *)
(* MaxSegs segments, one after the other.                                  *)
(***************************************************************************)
SegPrefix == <<"b", "l", "a", "h", ":", " ">>
SegReasonNextLine == <<"\n", "o", "o", "p", "s", "\n", "m", "o", "r", "e">>
SegReasonSameLine == <<" ", "o", "o", "p", "s", "\n">>
SegJsonMessage ==
    <<"{", "\"", "m", "e", "s", "s", "a", "g", "e", "\"", ":", " ", "\"", "b", "a",
      "d", " ", "r", "e", "q", "u", "e", "s", "t", "\"", "}">>
SegJsonNoMessage == <<"{", "\"", "c", "o", "d", "e", "\"", ":", " ", "1", "}">>
SegJsonList == <<"[", "\"", "m", "e", "s", "s", "a", "g", "e", "\"", "]">>
SegJsonString == <<"\"", "m", "e", "s", "s", "a", "g", "e", "\"">>
SegJsonNumber == <<"5">>
SegJsonNull == <<"n", "u", "l", "l">>
BadRequest == <<"b", "a", "d", " ", "r", "e", "q", "u", "e", "s", "t">>
Oops == <<"o", "o", "p", "s">>

Segments ==
    {SegPrefix, ErrorMessageMarker, SegReasonNextLine, SegReasonSameLine, FeeMarker,
     ErrorAtPcMarker, SegJsonMessage, SegJsonNoMessage, SegJsonList, SegJsonString,
     SegJsonNumber, SegJsonNull}

RECURSIVE Concat(_)
Concat(ss) == IF ss = <<>> THEN <<>> ELSE Head(ss) \o Concat(Tail(ss))

Messages == {Concat(ss) : ss \in UNION {[1..n -> Segments] : n \in 0..MaxSegs}}
FewMessages == {Concat(ss) : ss \in UNION {[1..n -> Segments] : n \in 0..1}}

HceInputs ==
    {Exc(1, k, PyStr(m)) : k \in ClientExceptions, m \in Messages}
    \cup {Exc(1, k, PyStr(m)) : k \in ApeExceptions \cup OtherExceptions, m \in FewMessages}

NotCalled == [raised |-> FALSE, err |-> NoExc]

StartErr ==
    /\ hceErr \in HceInputs
    /\ hceOut = NotCalled

IdleErr ==
    /\ hceErr = NoExc
    /\ hceOut = NotCalled

\* handle_client_error is called on the exception
HandleClientErrorCall ==
    /\ hceErr # NoExc
    /\ hceOut = NotCalled
    /\ hceOut' = HandleClientError(hceErr, 2)
    /\ UNCHANGED <<hceErr, exceptErr>>

(***************************************************************************)
(* Checksummed addresses.  An int is the sequence of its lowercase hex     *)
(* digits without leading zeros (0 is the empty sequence), so that an      *)
(* address keeps its 252 bits.  bytes are sequences of 0..255.             *)
(***************************************************************************)
LowerHex == <<"0", "1", "2", "3", "4", "5", "6", "7", "8", "9", "a", "b", "c", "d", "e", "f">>
UpperHex == <<"0", "1", "2", "3", "4", "5", "6", "7", "8", "9", "A", "B", "C", "D", "E", "F">>
HexChars == {LowerHex[i] : i \in 1..16} \cup {UpperHex[i] : i \in 1..16}

PyInt(digits) == [t |-> "int", v |-> digits]
PyBytes(bs) == [t |-> "bytes", v |-> bs]

\* the value of a hex digit, whatever its case
HexVal(c) == (CHOOSE i \in 1..16 : LowerHex[i] = c \/ UpperHex[i] = c) - 1

\* c.lower() and c.upper() for one character
LowerChar(c) == IF c \in HexChars THEN LowerHex[HexVal(c) + 1] ELSE c
UpperChar(c) == IF c \in HexChars THEN UpperHex[HexVal(c) + 1] ELSE c

RECURSIVE DropLeadingZeros(_)
DropLeadingZeros(ds) ==
    IF ds # <<>> /\ Head(ds) = "0" THEN DropLeadingZeros(Tail(ds)) ELSE ds

\* is_text(value)
IsText(value) == value.t = "str"

HasHexPrefix(chars) == Len(chars) >= 2 /\ chars[1] = "0" /\ chars[2] \in {"x", "X"}

\* remove_0x_prefix(value)
Remove0xPrefix(chars) == IF HasHexPrefix(chars) THEN SubSeq(chars, 3, Len(chars)) ELSE chars

\* int(chars, 16): [exc, val], a ValueError without a digit or with a character that is none
IntBase16(chars) ==
    LET ds == Remove0xPrefix(chars)
    IN IF ds = <<>> \/ \E i \in 1..Len(ds) : ds[i] \notin HexChars
       THEN [exc |-> "ValueError", val |-> <<>>]
       ELSE [exc |-> "none",
             val |-> DropLeadingZeros([i \in 1..Len(ds) |-> LowerChar(ds[i])])]

\* HexBytes(bs).hex() for bytes: 0x and two lowercase digits a byte
HexOfBytes(bs) ==
    <<"0", "x">> \o [i \in 1..(2 * Len(bs)) |->
                        IF i % 2 = 1 THEN LowerHex[(bs[(i + 1) \div 2] \div 16) + 1]
                        ELSE LowerHex[(bs[i \div 2] % 16) + 1]]

\* HexBytes(n).hex() for an int: 0x and the digits of n, a 0 before an odd number of them
HexOfInt(digits) ==
    <<"0", "x">> \o (IF Len(digits) % 2 = 1 THEN <<"0">> \o digits
                     ELSE IF digits = <<>> THEN <<"0", "0">> ELSE digits)

\* parse_address(value): an int as it is, a str through int(value, 16)
ParseAddress(value) ==
    IF value.t = "int" THEN [exc |-> "none", val |-> value.v] ELSE IntBase16(value.v)

\* value.replace("0x", ""): a hex string holds 0x at its front or nowhere
Drop0x(chars) == Remove0xPrefix(chars)

\* pad_hex_str(value, to_length), with as many zeros on the value's right
PadHexStrOnTheRight(chars, to_length) ==
    LET val == Drop0x(chars)
        n == to_length - 2 - Len(val)
    IN <<"0", "x">> \o val \o [i \in 1..(IF n > 0 THEN n ELSE 0) |-> "0"]

\* pad_hex_str(value, to_length)
PadHexStr(chars, to_length) ==
    LET val == Drop0x(chars)
        n == to_length - 2 - Len(val)
    IN <<"0", "x">> \o [i \in 1..(IF n > 0 THEN n ELSE 0) |-> "0"] \o val

PadLength == 66

\* the bytes of pedersen_hash(0, address_int).  The hash is the Starkware library's:
\* the model takes it to be some function of the address, the one `pedersen` names;
\* ped.len is the number of bytes of the hash value.
RECURSIVE DigitSum(_)
DigitSum(digits) ==
    IF digits = <<>> THEN 0
    ELSE ((HexVal(Head(digits)) + 1) * Len(digits) + DigitSum(Tail(digits))) % 256

PedersenBytes(ped, digits) ==
    [j \in 1..ped.len |-> (ped.seed * 89 + j * 57 + DigitSum(digits) * 43) % 256]

\* _to_checksum_address(address): [exc, val]
ToChecksumAddressRaw(ped, address) ==
    LET text == IF address.t = "bytes" THEN PyStr(HexOfBytes(address.v)) ELSE address
        address_int == ParseAddress(text)
        address_str == PadHexStr(HexOfInt(address_int.val), PadLength)
        chars == Remove0xPrefix(address_str)
        hashed == PedersenBytes(ped, address_int.val)
        \* position p counts from 0 as in the code; the byte of a pair is hashed[p >> 1]
        upper(p) == /\ (p \div 2) + 1 <= Len(hashed)
                    /\ (IF p % 2 = 0 THEN hashed[(p \div 2) + 1] \div 16
                        ELSE hashed[(p \div 2) + 1] % 16) >= 8
    IN IF address_int.exc # "none" THEN [exc |-> address_int.exc, val |-> PyNone]
       ELSE [exc |-> "none",
             val |-> PyStr(<<"0", "x">> \o
                           [i \in 1..Len(chars) |->
                               IF upper(i - 1) THEN UpperChar(chars[i]) ELSE chars[i]])]

\* is_hex_address(value): the whole of value matches (0x)?[0-9a-f]*, whatever the case
IsHexAddress(value) ==
    /\ IsText(value)
    /\ \A i \in 1..Len(Remove0xPrefix(value.v)) : Remove0xPrefix(value.v)[i] \in HexChars

\* is_checksum_address(value) that compares the digits whatever their case
IsChecksumAddressWhateverCase(ped, value) ==
    IF ~IsText(value) THEN [exc |-> "none", val |-> FALSE]
    ELSE IF ~IsHexAddress(value) THEN [exc |-> "none", val |-> FALSE]
    ELSE LET c == ToChecksumAddressRaw(ped, value)
         IN IF c.exc # "none" THEN [exc |-> c.exc, val |-> FALSE]
            ELSE [exc |-> "none",
                  val |-> ([i \in 1..Len(value.v) |-> LowerChar(value.v[i])]
                           = [i \in 1..Len(c.val.v) |-> LowerChar(c.val.v[i])])]

\* is_checksum_address(value): [exc, val]
IsChecksumAddress(ped, value) ==
    IF ~IsText(value) THEN [exc |-> "none", val |-> FALSE]
    ELSE IF ~IsHexAddress(value) THEN [exc |-> "none", val |-> FALSE]
    ELSE LET c == ToChecksumAddressRaw(ped, value)
         IN IF c.exc # "none" THEN [exc |-> c.exc, val |-> FALSE]
            ELSE [exc |-> "none", val |-> (value = c.val)]

\* to_checksum_address(address): [exc, val]
ToChecksumAddress(ped, address) ==
    LET is == IsChecksumAddress(ped, address)
    IN IF is.exc # "none" THEN [exc |-> is.exc, val |-> PyNone]
       ELSE IF is.val THEN [exc |-> "none", val |-> address]
       ELSE ToChecksumAddressRaw(ped, address)

(***************************************************************************)
(* The addresses to_checksum_address is tried on, and the hash functions.  *)
(***************************************************************************)
AddrDigits == {"0", "1", "a", "f"}
AddrChars == {"0", "1", "a", "A", "f", "F"}
AddrByteValues == {0, 26, 255}

SeqsUpTo(S, n) == UNION {[1..k -> S] : k \in 0..n}

AddrInts == {PyInt(ds) : ds \in {d \in SeqsUpTo(AddrDigits, MaxAddrDigits) : d = DropLeadingZeros(d)}}
AddrShortStrs == {PyStr(p \o cs) : p \in {<<>>, <<"0", "x">>}, cs \in SeqsUpTo(AddrChars, MaxAddrDigits)}
AddrLongStrs ==
    {PyStr(PadHexStr(cs, PadLength)) : cs \in SeqsUpTo(AddrChars, MaxAddrDigits)}
AddrBytes == {PyBytes(bs) : bs \in SeqsUpTo(AddrByteValues, MaxAddrBytes)}
AddrInputs == AddrInts \cup AddrShortStrs \cup AddrLongStrs \cup AddrBytes

DigestLengths == {1, 31, 32}
PedersenFamily == [seed : 0..MaxSeed, len : DigestLengths]

NotComputed == [exc |-> "notcomputed", val |-> PyNone]

StartChecksum ==
    /\ pedersen \in PedersenFamily
    /\ csIn \in AddrInputs
    /\ csOut = NotComputed
    /\ csAgain = NotComputed
    /\ icaIn = PyNone
    /\ icaOut = NotComputed

IdleChecksum ==
    /\ pedersen = [seed |-> 1, len |-> 32]
    /\ csIn = PyNone
    /\ csOut = NotComputed
    /\ csAgain = NotComputed
    /\ icaIn = PyNone
    /\ icaOut = NotComputed

\* to_checksum_address(csIn)
ToChecksumCall ==
    /\ csIn # PyNone
    /\ csOut = NotComputed
    /\ csOut' = ToChecksumAddress(pedersen, csIn)
    /\ UNCHANGED <<csIn, csAgain, icaIn, icaOut, pedersen, exceptChecksum>>

\* to_checksum_address of the address the first call returned
ToChecksumAgainCall ==
    /\ csOut.exc = "none"
    /\ csAgain = NotComputed
    /\ csAgain' = ToChecksumAddress(pedersen, csOut.val)
    /\ UNCHANGED <<csIn, csOut, icaIn, icaOut, pedersen, exceptChecksum>>

\* values that are no address: a character that is no hex digit, or no digit at all
AddrMalformed ==
    {PyStr(<<"g">>), PyStr(<<"0", "x", "1", "g">>), PyStr(<<"x">>), PyStr(<<" ">>)}

\* s with the case of its i-th character changed
FlipCase(s, i) ==
    [s EXCEPT ![i] = IF LowerChar(@) = @ THEN UpperChar(@) ELSE LowerChar(@)]

\* the strings that differ from the checksummed address by the case of one letter
CaseFlips(checksummed) ==
    {PyStr(FlipCase(checksummed.v, i)) :
        i \in {j \in 3..Len(checksummed.v) : FlipCase(checksummed.v, j) # checksummed.v}}

StartValid ==
    /\ pedersen \in PedersenFamily
    /\ csIn \in AddrInts \cup AddrShortStrs \cup AddrBytes \cup AddrMalformed
    /\ csOut = NotComputed
    /\ csAgain = NotComputed
    /\ icaIn = PyNone
    /\ icaOut = NotComputed

\* is_checksum_address of the value given, of the address to_checksum_address returned
\* for it, or of that address with the case of one letter changed
IsChecksumAddressCall ==
    /\ csIn # PyNone
    /\ icaOut.exc = "notcomputed"
    /\ \E value \in {csIn} \cup (IF csOut.exc = "none"
                                  THEN {csOut.val} \cup CaseFlips(csOut.val) ELSE {}) :
          /\ icaIn' = value
          /\ icaOut' = IsChecksumAddress(pedersen, value)
    /\ UNCHANGED <<csIn, csOut, csAgain, pedersen, exceptChecksum>>

(***************************************************************************)
(* get_receipt.  A dict is a function from its keys, a dataclass object    *)
(* [cls, d] with d the dict of its fields; a felt is a number of Felts.    *)
(***************************************************************************)
Felts == 0..MaxFelt

\* get_selector_from_name("__execute__"): the felt that stands for it
EXECUTE_SELECTOR == 2

\* {**a, **b}
Merge(a, b) == b @@ a

\* d with d[key] = value
SetItem(d, key, value) == (key :> value) @@ d

\* seq[lo:hi] for 0 <= lo and 0 <= hi
Slice(seq, lo, hi) == SubSeq(seq, lo + 1, IF hi < Len(seq) THEN hi ELSE Len(seq))

\* the int n the way the checksum functions take it: its hex digits
RECURSIVE HexDigitsOf(_)
HexDigitsOf(n) == IF n = 0 THEN <<>> ELSE Append(HexDigitsOf(n \div 16), LowerHex[(n % 16) + 1])

FeltAddress(n) == PyInt(HexDigitsOf(n))

\* ecosystem.decode_address(raw_address)
DecodeAddress(ped, raw_address) == ToChecksumAddress(ped, raw_address).val

\* get_dict_from_tx_info(txn_info)
GetDictFromTxInfo(ped, txn) ==
    LET txn_dict == txn.d
    IN CASE txn.cls = "DeployTransaction" ->
              SetItem(SetItem(SetItem(txn_dict,
                  "contract_address",
                  ToChecksumAddress(ped, FeltAddress(txn.d.contract_address)).val),
                  "max_fee", 0),
                  "type", "DEPLOY")
         [] txn.cls = "InvokeTransaction" ->
              SetItem(SetItem(txn_dict,
                  "contract_address",
                  ToChecksumAddress(ped, FeltAddress(txn.d.contract_address)).val),
                  "type", "INVOKE_FUNCTION")
         [] txn.cls = "DeclareTransaction" ->
              SetItem(SetItem(txn_dict,
                  "sender", ToChecksumAddress(ped, FeltAddress(txn.d.sender_address)).val),
                  "type", "DECLARE")
         [] OTHER -> txn_dict

\* data.get("entry_point_selector") == EXECUTE_SELECTOR
IsExecute(data) ==
    "entry_point_selector" \in DOMAIN data /\ data["entry_point_selector"] = EXECUTE_SELECTOR

\* the unwrap of __execute__: [exc, data, warnings].  calldata[k] of the code is
\* calldata[k + 1] here; an index past the end is an IndexError, and the warning of a
\* call count other than 1 is logged before the later indices are read.
UnwrapExecute(ped, data) ==
    LET calldata == data["calldata"]
        warned == IF Len(calldata) >= 1 /\ calldata[1] # 1 THEN 1 ELSE 0
    IN IF Len(calldata) < 4
       THEN [exc |-> Exc(1, "IndexError", PyNone), data |-> <<>>, warnings |-> warned]
       ELSE LET stop_index == calldata[4] + 1
            IN [exc |-> NoExc,
                data |-> SetItem(SetItem(SetItem(SetItem(data,
                             "sender", data["contract_address"]),
                             "contract_address", DecodeAddress(ped, FeltAddress(calldata[2]))),
                             "entry_point_selector", calldata[3]),
                             "calldata", Slice(calldata, 4, stop_index)),
                warnings |-> warned]

\* the unwrap on every transaction that has calldata
ShouldUnwrapAnyCalldata(data) == "calldata" \in DOMAIN data

\* whether get_receipt unwraps the merged record
ShouldUnwrap(data) == IsExecute(data)

\* the body of get_receipt from the merged record on: [exc, data, warnings]
GetReceiptBody(ped, data) ==
    IF ShouldUnwrap(data) THEN UnwrapExecute(ped, data)
    ELSE [exc |-> NoExc, data |-> data, warnings |-> 0]

\* handle_client_errors that wraps whatever was raised in a provider error of its own
DecoratedAlwaysWraps(exc, id) ==
    IF exc = NoExc THEN NoExc ELSE Exc(id, "StarknetProviderError", exc.message)

\* handle_client_errors around a body that raised exc or returned: the exception that
\* leaves the decorated function; id is the identity of an object created on the way
Decorated(exc, id) ==
    IF exc = NoExc THEN NoExc ELSE HandleClientError(exc, id).err

\* get_receipt, decorated, its body having ended as r
GetReceipt(r) ==
    [done |-> TRUE, exc |-> Decorated(r.exc, 2), data |-> r.data, warnings |-> r.warnings]

(***************************************************************************)
(* The transactions get_receipt is tried on.                               *)
(***************************************************************************)
Calldatas == SeqsUpTo(Felts, MaxCalldata)
WrapperAddresses == {0, 1}

InvokeTransactions ==
    {[cls |-> "InvokeTransaction",
      d |-> [hash |-> 7, max_fee |-> 1, contract_address |-> a,
             entry_point_selector |-> sel, calldata |-> cd]] :
        a \in WrapperAddresses, sel \in Felts, cd \in Calldatas}
DeployTransactions ==
    {[cls |-> "DeployTransaction",
      d |-> [hash |-> 7, max_fee |-> 1, contract_address |-> a,
             constructor_calldata |-> cd, class_hash |-> 1]] :
        a \in Felts, cd \in SeqsUpTo(Felts, 1)}
DeclareTransactions ==
    {[cls |-> "DeclareTransaction",
      d |-> [hash |-> 7, max_fee |-> 1, class_hash |-> 1, sender_address |-> a]] :
        a \in Felts}
Transactions == InvokeTransactions \cup DeployTransactions \cup DeclareTransactions

Receipts ==
    {[hash |-> 7, status |-> st, block_number |-> 1, actual_fee |-> 0] :
        st \in {"ACCEPTED_ON_L2"}}

NoRecord == [done |-> FALSE, exc |-> NoExc, data |-> <<>>, warnings |-> 0]
NoTxn == [cls |-> "none", d |-> <<>>]

StartReceipt ==
    /\ txn_info \in Transactions
    /\ receipt \in Receipts
    /\ rcOut = NoRecord

IdleReceipt ==
    /\ txn_info = NoTxn
    /\ receipt = <<>>
    /\ rcOut = NoRecord

\* get_receipt(txn_hash), the client answering with txn_info and receipt
GetReceiptCall ==
    /\ txn_info # NoTxn
    /\ ~rcOut.done
    /\ \E data \in {Merge(receipt, GetDictFromTxInfo(pedersen, txn_info))} :
          \E r \in {GetReceiptBody(pedersen, data)} :
             rcOut' = GetReceipt(r)
    /\ UNCHANGED <<txn_info, receipt, pedersen, exceptReceipt>>

(***************************************************************************)
(* The provider's operations and the way an exception leaves them.  An     *)
(* operation is the sequence of the steps of its body that can raise or    *)
(* call: [k, n, arg] with k one of                                         *)
(*   "client": a request of the network client named n,                    *)
(*   "prop":   a read of the property n (starknet_client, connected_client),*)
(*   "check":  a condition of the body that raises the exception n,        *)
(*   "call":   a call of the operation n with the argument arg.            *)
(***************************************************************************)
Step(k, n, arg) == [k |-> k, n |-> n, arg |-> arg]
StarknetClient == Step("prop", "starknet_client", "")
ConnectedClient == Step("prop", "connected_client", "")
Client(n) == Step("client", n, "")

\* the operations under @handle_client_errors
DecoratedOperations ==
    {"get_balance", "get_code", "get_abi", "get_nonce", "estimate_gas_cost", "get_block",
     "send_call", "_get_traces", "_get_single_trace", "get_receipt", "send_transaction"}

IsDecorated(op) == op \in DecoratedOperations

\* the body of each operation
Body(op, arg) ==
    CASE op = "get_code" -> <<Step("call", "get_code_and_abi", arg)>>
      [] op = "get_abi" -> <<Step("call", "get_code_and_abi", arg)>>
      [] op = "get_code_and_abi" ->
            IF arg = "cached" THEN <<>>
            ELSE <<StarknetClient, Client("get_code_sync")>>
      [] op = "get_nonce" -> <<ConnectedClient, Client("get_contract_nonce_sync")>>
      [] op = "estimate_gas_cost" -> <<ConnectedClient, Client("estimate_fee_sync")>>
      [] op = "get_block" ->
            IF arg = "negative"
            THEN <<Step("call", "get_block", "latest"),
                   Step("check", "StarknetProviderError", ""),
                   StarknetClient, Client("get_block_sync")>>
            ELSE IF arg = "unsupported"
            THEN <<Step("check", "StarknetProviderError", "")>>
            ELSE <<StarknetClient, Client("get_block_sync")>>
      [] op = "_get_block" -> <<StarknetClient, Client("get_block_sync")>>
      [] op = "send_call" ->
            <<Step("check", "StarknetProviderError", ""),
              ConnectedClient, Client("call_contract_sync")>>
      [] op = "_get_traces" -> <<StarknetClient, Client("get_block_traces_sync")>>
      [] op = "_get_single_trace" -> <<Step("call", "_get_traces", "")>>
      [] op = "get_receipt" ->
            <<StarknetClient, Client("wait_for_tx_sync"),
              StarknetClient, Client("get_transaction_sync"),
              StarknetClient, Client("get_transaction_receipt_sync"),
              Step("check", "IndexError", "")>>
      [] op = "get_transactions_by_block" -> <<Step("call", "_get_block", arg)>>
      [] op = "send_transaction" ->
            <<Step("call", "_send_transaction", ""),
              Step("check", "TransactionError", ""),
              Step("call", "get_receipt", "")>>
      [] op = "_send_transaction" ->
            <<Step("check", "StarknetProviderError", ""),
              StarknetClient, Client("send_transaction_sync")>>
      [] OTHER -> <<>>

\* what a caller of the provider can invoke
PublicCalls ==
    {<<"get_code", "uncached">>, <<"get_code", "cached">>, <<"get_abi", "uncached">>,
     <<"get_code_and_abi", "uncached">>, <<"get_code_and_abi", "cached">>,
     <<"get_nonce", "">>, <<"estimate_gas_cost", "">>,
     <<"get_block", "negative">>, <<"get_block", "latest">>, <<"get_block", "unsupported">>,
     <<"send_call", "">>, <<"_get_single_trace", "">>, <<"get_receipt", "">>,
     <<"get_transactions_by_block", "latest">>, <<"send_transaction", "">>}

\* the messages the client's exceptions carry
ClientMessages ==
    {FeeMarker,
     SegPrefix \o ErrorMessageMarker \o SegReasonSameLine,
     SegPrefix \o SegJsonMessage,
     SegPrefix \o SegJsonNumber}

\* the exception a property raises without a client
PropertyError(n) ==
    IF n = "connected_client" THEN "ProviderNotConnectedError" ELSE "StarknetProviderError"

Frame(op, arg) == [op |-> op, arg |-> arg, pc |-> 1]
Top == stack[Len(stack)]
Rest == SubSeq(stack, 1, Len(stack) - 1)
AtStep == flying = NoExc /\ stack # <<>> /\ Top.pc <= Len(Body(Top.op, Top.arg))
Current == Body(Top.op, Top.arg)[Top.pc]
Advance == [stack EXCEPT ![Len(stack)].pc = @ + 1]
NotDelivered == [done |-> FALSE, exc |-> NoExc]
NoEntry == <<"", "">>

StartCalls ==
    /\ entry = NoEntry
    /\ stack = <<>>
    /\ flying = NoExc
    /\ origin = NoExc
    /\ classified = <<>>
    /\ nextId = 1
    /\ delivered = NotDelivered

IdleCalls ==
    /\ entry = <<"idle", "">>
    /\ stack = <<>>
    /\ flying = NoExc
    /\ origin = NoExc
    /\ classified = <<>>
    /\ nextId = 1
    /\ delivered = NotDelivered

\* the caller invokes an operation of the provider
CallOperation ==
    /\ entry = NoEntry
    /\ \E c \in PublicCalls :
          /\ entry' = c
          /\ stack' = <<Frame(c[1], c[2])>>
    /\ UNCHANGED <<flying, origin, classified, nextId, delivered, exceptCalls>>

\* the client answers a request
ClientAnswers ==
    /\ AtStep /\ Current.k = "client"
    /\ stack' = Advance
    /\ UNCHANGED <<entry, flying, origin, classified, nextId, delivered, exceptCalls>>

\* the client raises ClientError or TransactionRejectedError on a request
ClientRaises ==
    /\ AtStep /\ Current.k = "client"
    /\ \E kind \in ClientExceptions, m \in ClientMessages :
          /\ flying' = Exc(nextId, kind, PyStr(m))
          /\ origin' = flying'
    /\ nextId' = nextId + 1
    /\ UNCHANGED <<entry, stack, classified, delivered, exceptCalls>>

\* starknet_client or connected_client gives the client
PropertyGivesClient ==
    /\ AtStep /\ Current.k = "prop"
    /\ stack' = Advance
    /\ UNCHANGED <<entry, flying, origin, classified, nextId, delivered, exceptCalls>>

\* starknet_client or connected_client raises: there is no client
PropertyRaises ==
    /\ AtStep /\ Current.k = "prop"
    /\ flying' = Exc(nextId, PropertyError(Current.n), PyNone)
    /\ origin' = flying'
    /\ nextId' = nextId + 1
    /\ UNCHANGED <<entry, stack, classified, delivered, exceptCalls>>

\* a condition of the body holds and nothing is raised
CheckPasses ==
    /\ AtStep /\ Current.k = "check"
    /\ stack' = Advance
    /\ UNCHANGED <<entry, flying, origin, classified, nextId, delivered, exceptCalls>>

\* a condition of the body fails and the body raises
CheckRaises ==
    /\ AtStep /\ Current.k = "check"
    /\ flying' = Exc(nextId, Current.n, PyNone)
    /\ origin' = flying'
    /\ nextId' = nextId + 1
    /\ UNCHANGED <<entry, stack, classified, delivered, exceptCalls>>

\* the body calls another operation of the provider
CallInner ==
    /\ AtStep /\ Current.k = "call"
    /\ stack' = Append(stack, Frame(Current.n, Current.arg))
    /\ UNCHANGED <<entry, flying, origin, classified, nextId, delivered, exceptCalls>>

\* the innermost operation returns, to its caller or to the caller of the provider
Return ==
    /\ flying = NoExc /\ stack # <<>> /\ Top.pc > Len(Body(Top.op, Top.arg))
    /\ IF Len(stack) = 1
       THEN /\ stack' = <<>>
            /\ delivered' = [done |-> TRUE, exc |-> NoExc]
       ELSE /\ stack' = [Rest EXCEPT ![Len(Rest)].pc = @ + 1]
            /\ UNCHANGED delivered
    /\ UNCHANGED <<entry, flying, origin, classified, nextId, exceptCalls>>

\* the exception leaves the innermost operation, through handle_client_errors if the
\* operation is decorated
Unwind ==
    /\ flying # NoExc /\ stack # <<>>
    /\ stack' = Rest
    /\ IF IsDecorated(Top.op)
       THEN /\ flying' = Decorated(flying, nextId)
            /\ classified' = Append(classified, [op |-> Top.op, in |-> flying, out |-> flying'])
            /\ nextId' = nextId + 1
       ELSE UNCHANGED <<flying, classified, nextId>>
    /\ UNCHANGED <<entry, origin, delivered, exceptCalls>>

\* the exception reaches the caller of the provider
Deliver ==
    /\ flying # NoExc /\ stack = <<>> /\ ~delivered.done
    /\ delivered' = [done |-> TRUE, exc |-> flying]
    /\ UNCHANGED <<entry, stack, flying, origin, classified, nextId, exceptCalls>>

(***************************************************************************)
(* extract_trace_data.  A trace is [supplied, result, internal_calls]:     *)
(* supplied is whether there is a trace at all, the other two are the      *)
(* entries of its function_invocation.  The value is [keys, result,        *)
(* internal_calls], keys the keys of the dictionary returned.              *)
(***************************************************************************)
NoTrace == [supplied |-> FALSE, result |-> <<>>, internal_calls |-> <<>>]

\* the result lists of an invocation
ResultLists == {<<>>, <<5>>, <<1>>, <<2, 3>>, <<9, 2, 3>>}

Traces ==
    {[supplied |-> TRUE, result |-> r, internal_calls |-> c] :
        r \in ResultLists, c \in SeqsUpTo([result : ResultLists], MaxInternalCalls)}

\* extract_trace_data(trace) that takes the first internal call
ExtractTraceDataFirstInternal(t) ==
    IF ~t.supplied THEN [keys |-> {}, result |-> <<>>, internal_calls |-> <<>>]
    ELSE LET preferred == IF t.internal_calls # <<>>
                          THEN t.internal_calls[1].result
                          ELSE t.result
         IN [keys |-> {"result", "internal_calls"},
             result |-> IF preferred # <<>> THEN preferred ELSE t.result,
             internal_calls |-> t.internal_calls]

\* extract_trace_data(trace): the dictionary returned, which is the trace's own
\* function_invocation with its result written over
ExtractTraceData(t) ==
    IF ~t.supplied THEN [keys |-> {}, result |-> <<>>, internal_calls |-> <<>>]
    ELSE LET preferred == IF t.internal_calls # <<>>
                          THEN t.internal_calls[Len(t.internal_calls)].result
                          ELSE t.result
         IN [keys |-> {"result", "internal_calls"},
             result |-> IF preferred # <<>> THEN preferred ELSE t.result,
             internal_calls |-> t.internal_calls]

NoSelection == [calls |-> 0, of |-> NoTrace, val |-> ExtractTraceData(NoTrace)]

StartTrace ==
    /\ trace \in Traces \cup {NoTrace}
    /\ trOut = NoSelection

IdleTrace ==
    /\ trace = NoTrace
    /\ trOut = [calls |-> 2, of |-> NoTrace, val |-> ExtractTraceData(NoTrace)]

\* extract_trace_data(trace), once and once again on the same trace object
ExtractTraceDataCall ==
    /\ trOut.calls < 2
    /\ \E val \in {ExtractTraceData(trace)} :
          /\ trOut' = [calls |-> trOut.calls + 1, of |-> trace, val |-> val]
          /\ trace' = IF trace.supplied THEN [trace EXCEPT !.result = val.result] ELSE trace
    /\ UNCHANGED exceptTrace

(***************************************************************************)
(* handle_client_errors.  The decorated function ends as [exc, result]:    *)
(* the exception it raised, or NoExc and the value it returned.            *)
(***************************************************************************)
ErrorKey == <<"e", "r", "r", "o", "r">>
TransactionFailed ==
    <<"T", "r", "a", "n", "s", "a", "c", "t", "i", "o", "n", " ", "f", "a", "i", "l", "e", "d">>

\* bool(value)
Truthy(value) ==
    CASE value.t = "NoneType" -> FALSE
      [] value.t = "bool" -> value.v[1]
      [] value.t = "int" -> value.v \notin {<<>>, <<"0">>}
      [] OTHER -> value.v # <<>>

\* d.get(key)
DictGetOrNone(d, key) == IF DictHas(d, key) THEN DictGet(d, key) ELSE PyNone

\* the error entries of a result
ErrorObjects ==
    {PyDict(<<>>),
     PyDict(<< <<MessageKey, PyStr(BadRequest)>> >>),
     PyDict(<< <<MessageKey, PyStr(<<>>)>> >>),
     PyDict(<< <<MessageKey, PyNone>> >>),
     PyDict(<< <<<<"c", "o", "d", "e">>, PyNum(<<"5">>)>> >>),
     PyDict(<< <<<<"c", "o", "d", "e">>, PyNum(<<"5">>)>>, <<MessageKey, PyStr(Oops)>> >>)}
ErrorEntries == ErrorObjects \cup {PyNone, PyStr(<<>>), PyStr(Oops), PyList(<<PyStr(Oops)>>)}

\* what a decorated function returns
FnResults ==
    {PyNone, PyNum(<<"5">>), PyStr(Oops), PyList(<<>>), PyDict(<<>>),
     PyDict(<< <<MessageKey, PyStr(Oops)>> >>)}
    \cup {PyDict(<< <<ErrorKey, e>> >>) : e \in ErrorEntries}
    \cup {PyDict(<< <<MessageKey, PyStr(BadRequest)>>, <<ErrorKey, e>> >>) : e \in ErrorEntries}

\* how a decorated function ends
FnBodies ==
    {[exc |-> NoExc, result |-> r] : r \in FnResults}
    \cup {[exc |-> Exc(1, k, PyStr(m)), result |-> PyNone] :
            k \in ClientExceptions \cup ApeExceptions \cup OtherExceptions, m \in FewMessages}

\* handle_client_errors(f)(...), f ending as body: what the caller gets.  The exception
\* raised inside the try is handed to handle_client_error, which gives back an
\* AttributeError or a StarknetProviderError as it is.
HandleClientErrors(body, id) ==
    IF body.exc # NoExc
    THEN [raised |-> TRUE, err |-> Decorated(body.exc, id), result |-> PyNone]
    ELSE IF body.result.t = "dict" /\ Truthy(DictGetOrNone(body.result, ErrorKey))
    THEN LET error == DictGet(body.result, ErrorKey)
         IN IF error.t # "dict"
            THEN [raised |-> TRUE, err |-> Exc(id, "AttributeError", PyNone), result |-> PyNone]
            ELSE LET message == DictGetOrNone(error, MessageKey)
                 IN [raised |-> TRUE,
                     err |-> Exc(id, "StarknetProviderError",
                                 IF Truthy(message) THEN message ELSE PyStr(TransactionFailed)),
                     result |-> PyNone]
    ELSE [raised |-> FALSE, err |-> NoExc, result |-> body.result]

NoOutcome == [raised |-> FALSE, err |-> NoExc, result |-> PyNone]
NoBody == [exc |-> NoExc, result |-> PyNone]

StartFn ==
    /\ fnBody = NoBody
    /\ fnOut = NoOutcome

IdleFn ==
    /\ fnBody = [exc |-> Exc(0, "idle", PyNone), result |-> PyNone]
    /\ fnOut = NoOutcome

\* a call of a decorated function that ends as body
HandleClientErrorsCall ==
    /\ fnBody.exc.kind # "idle"
    /\ \E body \in FnBodies :
          /\ fnBody' = body
          /\ fnOut' = HandleClientErrors(body, 2)
    /\ UNCHANGED exceptFn

(***************************************************************************)
(* TokenManager.  A token map is a function from names to functions from   *)
(* network names to addresses, as the dictionaries of the code are.        *)
(***************************************************************************)
Networks == {"local", "mainnet", "testnet"}
TokenNames == {"eth", "dai"}
TokenAddresses == {"0xa1", "0xa2"}

\* _base_token_address_map
BaseTokenAddressMap ==
    [name \in {"eth", "test_token"} |->
        IF name = "eth"
        THEN [n \in {"local", "mainnet", "testnet"} |->
                 IF n = "local" THEN "local_eth" ELSE "live_eth"]
        ELSE [n \in {"testnet", "mainnet"} |-> "live_token"]]

\* {**a, **b}
DictMerge(a, b) ==
    [k \in DOMAIN a \cup DOMAIN b |-> IF k \in DOMAIN b THEN b[k] ELSE a[k]]

\* token_address_map
TokenAddressMap(additional) == DictMerge(BaseTokenAddressMap, additional)

\* is_token(address) on the network net
IsToken(additional, net, address) ==
    LET map == TokenAddressMap(additional)
    IN \E name \in DOMAIN map : net \in DOMAIN map[name] /\ map[name][net] = address

\* self[token] on the network net: the address of the contract, "" for none
TokenAddress(additional, net, token) ==
    LET map == TokenAddressMap(additional)
    IN IF net \in DOMAIN map[token] THEN map[token][net] ELSE ""

StartTokens ==
    /\ additional_tokens = <<>>
    /\ network \in Networks
    /\ tkOut = [op |-> "none"]

IdleTokens ==
    /\ additional_tokens = <<>>
    /\ network = "local"
    /\ tkOut = [op |-> "idle"]

\* add_token(name, network, address)
AddTokenCall ==
    /\ tkOut.op # "idle"
    /\ \E name \in TokenNames, net \in Networks, address \in TokenAddresses :
          /\ additional_tokens' =
                LET had == IF name \in DOMAIN additional_tokens
                           THEN additional_tokens ELSE (name :> <<>>) @@ additional_tokens
                IN [had EXCEPT ![name] = (net :> address) @@ @]
          /\ tkOut' = [op |-> "add_token", name |-> name, network |-> net,
                       address |-> address]
    /\ UNCHANGED <<network, exceptTokens>>

(***************************************************************************)
(* The provider's operations with their data.  A call runs the steps of    *)
(* its plan, in order, up to the first that raises:                        *)
(*   "probe": a read of starknet_client, that is of is_connected, which    *)
(*            asks the network whether the URI answers,                    *)
(*   "conn":  a read of connected_client, which raises without a client,   *)
(*   "req":   the request n of the client with the argument arg,           *)
(*   "raise": a raise of the body, of the exception kind n for the reason  *)
(*            arg.                                                         *)
(* The network lets the steps before failAt succeed and fails that one.    *)
(***************************************************************************)
Probe == [k |-> "probe", n |-> "is_connected", arg |-> 0]
Conn == [k |-> "conn", n |-> "connected_client", arg |-> 0]
Req(n, arg) == [k |-> "req", n |-> n, arg |-> arg]
RaiseStep(kind, why) == [k |-> "raise", n |-> kind, arg |-> why]

NoError == [kind |-> "none", why |-> ""]

\* the exception a failed request leaves a decorated operation as
ClientFailure ==
    [kind |-> Decorated(Exc(1, "ClientError", PyStr(SegPrefix \o SegJsonMessage)), 2).kind,
     why |-> "client"]

\* the run of a plan: [exc, log, client], log the requests made, each with whether it
\* was answered; hasClient is self.client before the call, decorated whether a
\* ClientError passes a handle_client_errors on its way to the caller
Run(plan, failAt, hasClient, decorated) ==
    LET clientAt(i) == hasClient \/ \E j \in 1..(i - 1) : plan[j].k = "probe"
        fails(i) == \/ plan[i].k = "raise"
                    \/ plan[i].k = "conn" /\ ~clientAt(i)
                    \/ plan[i].k \in {"probe", "req"} /\ i = failAt
        stops == {i \in 1..Len(plan) : fails(i)}
        stop == IF stops = {} THEN Len(plan) + 1 ELSE MinOf(stops)
        made == SelectSeq([i \in 1..MinOf({stop, Len(plan)}) |->
                              [k |-> plan[i].k, n |-> plan[i].n, arg |-> plan[i].arg,
                               ok |-> i < stop]],
                          LAMBDA e : e.k = "req")
    IN [exc |-> IF stop > Len(plan) THEN NoError
                ELSE IF plan[stop].k = "raise" THEN [kind |-> plan[stop].n, why |-> plan[stop].arg]
                ELSE IF plan[stop].k = "conn"
                     THEN [kind |-> "ProviderNotConnectedError", why |-> "no client"]
                ELSE IF plan[stop].k = "probe"
                     THEN [kind |-> "StarknetProviderError", why |-> "not connected"]
                ELSE IF decorated THEN ClientFailure
                ELSE [kind |-> "ClientError", why |-> "client"],
        log |-> made,
        client |-> clientAt(stop)]

\* a block id: an int, one of the names, a block hash (76 characters), or anything else
BlockInt(n) == [t |-> "int", v |-> n]
BlockIds ==
    {BlockInt(n) : n \in (0 - MaxHeight - 3)..MaxHeight}
    \cup {[t |-> "str", v |-> "latest"], [t |-> "str", v |-> "pending"],
          [t |-> "hash", v |-> 0], [t |-> "NoneType", v |-> 0]}

\* get_block(block_id) that takes -1 for the block before the latest
GetBlockPlanFromBelowLatest(block_id, latest) ==
    IF block_id.t = "int" /\ block_id.v < 0
    THEN LET block_id_int == latest + block_id.v
         IN <<Probe, Req("get_block_sync", "latest")>> \o
            (IF block_id_int < 0
             THEN <<RaiseStep("StarknetProviderError", "not found")>>
             ELSE <<Probe, Req("get_block_sync", block_id_int)>>)
    ELSE <<Probe, Req("get_block_sync", block_id.v)>>

\* get_block(block_id), the latest block being at the height latest
GetBlockPlan(block_id, latest) ==
    IF block_id.t = "hash" THEN <<Probe, Req("get_block_sync", "block_hash")>>
    ELSE IF block_id.t = "str" THEN <<Probe, Req("get_block_sync", block_id.v)>>
    ELSE IF block_id.t = "int"
    THEN IF block_id.v < 0
         THEN LET block_id_int == latest + block_id.v + 1
              IN <<Probe, Req("get_block_sync", "latest")>> \o
                 (IF block_id_int < 0
                  THEN <<RaiseStep("StarknetProviderError", "not found")>>
                  ELSE <<Probe, Req("get_block_sync", block_id_int)>>)
         ELSE <<Probe, Req("get_block_sync", block_id.v)>>
    ELSE <<RaiseStep("StarknetProviderError", "unsupported")>>

NoCall == [op |-> "none"]

StartProvider ==
    /\ client \in BOOLEAN
    /\ cached_code = <<>>
    /\ fetched = <<>>
    /\ out = NoCall
    /\ gens = <<>>
    /\ requests = <<>>
    /\ IdleTrace
    /\ IdleFn
    /\ IdleTokens

IdleProvider ==
    /\ client = FALSE
    /\ cached_code = <<>>
    /\ fetched = <<>>
    /\ out = [op |-> "idle"]
    /\ gens = <<>>
    /\ requests = <<>>
    /\ IdleTrace
    /\ IdleFn
    /\ IdleTokens

\* get_block(block_id)
GetBlockCall ==
    /\ out.op # "idle"
    /\ \E block_id \in BlockIds, latest \in 0..MaxHeight :
          \E plan \in {GetBlockPlan(block_id, latest)} :
             \E failAt \in 0..Len(plan) :
                \E r \in {Run(plan, failAt, client, TRUE)} :
                   /\ out' = [op |-> "get_block", arg |-> block_id, latest |-> latest,
                              exc |-> r.exc, log |-> r.log]
                   /\ client' = r.client
    /\ UNCHANGED <<cached_code, fetched, exceptProvider>>

\* the addresses code is asked for: as an int, as a lowercase hex string, checksummed
CodeAddresses ==
    UNION {{PyInt(d), PyStr(<<"0", "x">> \o d),
            ToChecksumAddressRaw([seed |-> 1, len |-> 32], PyInt(d)).val} :
               d \in {<<"a">>, <<"1", "f">>}}

\* the ContractCode the client answers get_code_sync with
ContractCodes ==
    {[bytecode |-> <<>>, abi |-> <<>>], [bytecode |-> <<7>>, abi |-> <<>>],
     [bytecode |-> <<>>, abi |-> <<"f">>]}

\* [ord(c) for c in "PROXY"]
PROXY == <<80, 82, 79, 88, 89>>

\* get_code_and_abi(address) that asks the client whatever the cache holds
GetCodeAndAbiPlanUncached(cache, address_int) ==
    <<Probe, Req("get_code_sync", address_int)>>

\* get_code_and_abi(address), the address parsed: the steps when the cache is `cache`
GetCodeAndAbiPlan(cache, address_int) ==
    IF address_int \in DOMAIN cache THEN <<>>
    ELSE <<Probe, Req("get_code_sync", address_int)>>

\* get_code's result that is the bytecode whatever it is
GetCodeResultAsIs(code) == code.bytecode

\* get_code's result from the ContractCode of the address
GetCodeResult(code) == IF code.bytecode # <<>> THEN code.bytecode ELSE PROXY

\* get_code_and_abi that stores an entry for every request it made
StoresCodeWhenAsked(r) == r.log # <<>>

\* get_code_and_abi: whether the assignment to cached_code[address_int] is reached,
\* which is when get_code_sync has returned
StoresCode(r) == r.log # <<>> /\ r.log[1].ok

\* get_code(address), get_abi(address) and get_code_and_abi(address)
GetCodeCall ==
    /\ out.op # "idle"
    /\ \E op \in {"get_code", "get_abi", "get_code_and_abi"},
          address \in CodeAddresses, answer \in ContractCodes :
          \E address_int \in {ParseAddress(address).val} :
          \E plan \in {GetCodeAndAbiPlan(cached_code, address_int)} :
          \E failAt \in 0..Len(plan) :
          \E r \in {Run(plan, failAt, client, op # "get_code_and_abi")} :
          \E asked \in {StoresCode(r)} :
             /\ cached_code' = IF asked THEN (address_int :> answer) @@ cached_code
                               ELSE cached_code
             /\ fetched' = IF ~asked THEN fetched
                           ELSE IF address_int \in DOMAIN fetched
                           THEN [fetched EXCEPT ![address_int] = MinOf({@ + 1, 2})]
                           ELSE (address_int :> 1) @@ fetched
             /\ client' = r.client
             /\ out' = [op |-> op, arg |-> address, address_int |-> address_int,
                        hit |-> address_int \in DOMAIN cached_code,
                        exc |-> r.exc, log |-> r.log,
                        val |-> IF r.exc.kind # "none" THEN <<>>
                                ELSE IF op = "get_code" THEN GetCodeResult(cached_code'[address_int])
                                ELSE IF op = "get_abi" THEN cached_code'[address_int].abi
                                ELSE cached_code'[address_int]]
    /\ UNCHANGED exceptProvider

\* get_receipt(txn_hash); decodes: whether the record the client answered with is one
\* the rest of the body takes without raising
GetReceiptPlan(txn_hash, decodes) ==
    <<Probe, Req("wait_for_tx_sync", txn_hash),
      Probe, Req("get_transaction_sync", txn_hash),
      Probe, Req("get_transaction_receipt_sync", txn_hash)>>
    \o (IF decodes THEN <<>> ELSE <<RaiseStep("IndexError", "calldata")>>)

\* what the client answers send_transaction_sync with
SentResponses ==
    [code : {"TRANSACTION_RECEIVED", "TRANSACTION_NOT_RECEIVED"}, transaction_hash : {1, 2}]

\* the tokens send_transaction is tried with: the argument, the transaction's own
\* (has: whether the transaction has the attribute at all), the environment's
TokenArguments == {PyNone, PyStr(<<>>), PyStr(<<"a", "r", "g">>)}
TransactionTokens ==
    {[has |-> FALSE, v |-> PyNone], [has |-> TRUE, v |-> PyNone],
     [has |-> TRUE, v |-> PyStr(<<"t", "x", "n">>)]}
EnvironmentTokens == {PyNone, PyStr(<<"e", "n", "v">>)}

\* _send_transaction: the token handed to send_transaction_sync
ForwardedToken(token, txn_token, env) ==
    IF ~Truthy(token) /\ txn_token.has /\ Truthy(txn_token.v) THEN txn_token.v
    ELSE env

\* send_transaction(txn) that goes for the receipt whatever the response's code
SendTransactionPlanWhateverCode(txn, token, response, decodes) ==
    IF txn # "StarknetTransaction"
    THEN <<RaiseStep("StarknetProviderError", "unsupported")>>
    ELSE <<Probe, Req("send_transaction_sync", [txn |-> txn, token |-> token])>>
         \o GetReceiptPlan(response.transaction_hash, decodes)

\* send_transaction(txn) with _send_transaction, the client answering with response
SendTransactionPlan(txn, token, response, decodes) ==
    IF txn # "StarknetTransaction"
    THEN <<RaiseStep("StarknetProviderError", "unsupported")>>
    ELSE <<Probe, Req("send_transaction_sync", [txn |-> txn, token |-> token])>>
         \o (IF response.code # "TRANSACTION_RECEIVED"
             THEN <<RaiseStep("TransactionError", "not received")>>
             ELSE GetReceiptPlan(response.transaction_hash, decodes))

\* send_transaction(txn, token)
SendTransactionCall ==
    /\ out.op # "idle"
    /\ \E txn \in {"StarknetTransaction", "TransactionAPI"},
          response \in SentResponses, decodes \in BOOLEAN :
       \E token \in TokenArguments, txn_token \in TransactionTokens,
          env \in EnvironmentTokens :
          \E plan \in {SendTransactionPlan(txn, ForwardedToken(token, txn_token, env),
                                           response, decodes)} :
          \E failAt \in 0..Len(plan) :
          \E r \in {Run(plan, failAt, client, TRUE)} :
             /\ client' = r.client
             /\ out' = [op |-> "send_transaction", arg |-> txn, response |-> response,
                        token |-> token, txn_token |-> txn_token, env |-> env,
                        exc |-> r.exc, log |-> r.log,
                        val |-> IF r.exc.kind # "none" THEN <<>>
                                ELSE [receipt_of |-> r.log[Len(r.log)].arg]]
    /\ UNCHANGED <<cached_code, fetched, exceptProvider>>

\* what urlopen(self.uri) can end as: an answer, an HTTPError with its code, another
\* exception of urlopen, an exception of self.uri
ProbeOutcomes == {"answer", "HTTPError 404", "HTTPError 500", "URLError", "StarknetProviderError"}

\* is_connected that takes an answer only
WasSuccessfulOnAnswerOnly(probe) == probe = "answer"

\* is_connected: was_successful after the try
WasSuccessful(probe) ==
    IF probe = "answer" THEN TRUE
    ELSE IF probe \in {"HTTPError 404", "HTTPError 500"} THEN probe = "HTTPError 404"
    ELSE FALSE

\* is_connected
\* is_connected that makes a client whenever the probe was successful
CreatesClientWhenSuccessful(was_successful, has_client) == was_successful

\* is_connected: whether _create_client is called
CreatesClient(was_successful, has_client) == was_successful /\ ~has_client

IsConnectedCall ==
    /\ out.op # "idle"
    /\ \E probe \in ProbeOutcomes :
       \E creates \in {CreatesClient(WasSuccessful(probe), client)} :
          /\ client' = IF creates THEN TRUE ELSE client
          /\ out' = [op |-> "is_connected", arg |-> probe, had_client |-> client,
                     created |-> creates,
                     exc |-> NoError, log |-> <<>>, val |-> WasSuccessful(probe)]
    /\ UNCHANGED <<cached_code, fetched, exceptProvider>>

\* connect()
ConnectCall ==
    /\ out.op # "idle"
    /\ client' = TRUE
    /\ out' = [op |-> "connect", had_client |-> client, exc |-> NoError, log |-> <<>>]
    /\ UNCHANGED <<cached_code, fetched, exceptProvider>>

\* get_nonce(address), an operation on connected_client
GetNoncePlan(address) == <<Conn, Req("get_contract_nonce_sync", address)>>

GetNonceCall ==
    /\ out.op # "idle"
    /\ \E address \in {1, 2} :
          \E plan \in {GetNoncePlan(address)} :
          \E failAt \in 0..Len(plan) :
          \E r \in {Run(plan, failAt, client, TRUE)} :
             /\ client' = r.client
             /\ out' = [op |-> "get_nonce", arg |-> address, had_client |-> client,
                        exc |-> r.exc, log |-> r.log]
    /\ UNCHANGED <<cached_code, fetched, exceptProvider>>

\* disconnect()
DisconnectCall ==
    /\ out.op # "idle"
    /\ client' = FALSE
    /\ out' = [op |-> "disconnect", had_client |-> client, exc |-> NoError, log |-> <<>>]
    /\ UNCHANGED <<cached_code, fetched, exceptProvider>>

(***************************************************************************)
(* get_transactions_by_block: a generator function.  A generator is        *)
(* [state, block_id, todo, yielded]: "created" before its first next(),    *)
(* "suspended" at its yield, "done" after its return, "failed" after an    *)
(* exception; todo the transactions of the block still to come, yielded    *)
(* what its next() calls have given, in order.                             *)
(***************************************************************************)
Generators == {1, 2}

\* the transactions a block is made of
BlockTransactions ==
    {[cls |-> "InvokeTransaction",
      d |-> [hash |-> 7, max_fee |-> 1, contract_address |-> 1,
             entry_point_selector |-> 0, calldata |-> <<1>>]],
     [cls |-> "DeployTransaction",
      d |-> [hash |-> 8, max_fee |-> 1, contract_address |-> 2,
             constructor_calldata |-> <<>>, class_hash |-> 1]]}

\* the blocks the client answers get_block_sync with
Blocks == SeqsUpTo(BlockTransactions, MaxBlockTxns)

\* the body from the loop's head on, that leaves every other transaction out
ResumeSkipping(ped, gen) ==
    IF gen.todo = <<>> THEN [gen EXCEPT !.state = "done"]
    ELSE [gen EXCEPT !.state = "suspended",
                     !.todo = IF Len(@) > 1 THEN Tail(Tail(@)) ELSE <<>>,
                     !.yielded = Append(@, GetDictFromTxInfo(ped, Head(gen.todo)))]

\* the body from the loop's head on: the next yield, or the return
Resume(ped, gen) ==
    IF gen.todo = <<>> THEN [gen EXCEPT !.state = "done"]
    ELSE [gen EXCEPT !.state = "suspended",
                     !.todo = Tail(@),
                     !.yielded = Append(@, GetDictFromTxInfo(ped, Head(gen.todo)))]

\* the block ids the generators are made for
IterBlockIds == {[t |-> "str", v |-> "latest"], BlockInt(1), BlockInt(0 - 1)}

\* _get_block(block_id): the block id goes to the client as it is, as block_hash when
\* it is 76 characters long and as block_number otherwise
GetBlockInnerPlan(block_id) ==
    IF block_id.t = "hash" THEN <<Probe, Req("get_block_sync", "block_hash")>>
    ELSE <<Probe, Req("get_block_sync", block_id.v)>>

StartIter ==
    /\ client \in BOOLEAN
    /\ cached_code = <<>>
    /\ fetched = <<>>
    /\ out = [op |-> "idle"]
    /\ gens = <<>>
    /\ requests = <<>>
    /\ IdleTrace
    /\ IdleFn
    /\ IdleTokens

\* get_transactions_by_block(block_id): the generator, nothing of the body run
GetTransactionsByBlockCall ==
    /\ out.op = "idle"
    /\ Len(gens) < Cardinality(Generators)
    /\ \E block_id \in IterBlockIds :
          gens' = Append(gens, [state |-> "created", block_id |-> block_id, block |-> <<>>,
                                todo |-> <<>>, yielded |-> <<>>, exc |-> NoError])
    /\ UNCHANGED <<client, requests, exceptIter>>

\* the first next() of a generator: the body up to its first yield or its end
FirstNextCall ==
    \E g \in DOMAIN gens, block \in Blocks :
       /\ gens[g].state = "created"
       /\ \E plan \in {GetBlockInnerPlan(gens[g].block_id)} :
          \E failAt \in 0..Len(plan) :
          \E r \in {Run(plan, failAt, client, FALSE)} :
             /\ client' = r.client
             /\ requests' = requests \o [i \in 1..Len(r.log) |->
                                            [by |-> g, n |-> r.log[i].n, arg |-> r.log[i].arg,
                                             ok |-> r.log[i].ok]]
             /\ gens' = [gens EXCEPT ![g] =
                            IF r.exc.kind # "none"
                            THEN [@ EXCEPT !.state = "failed", !.exc = r.exc]
                            ELSE Resume(pedersen, [@ EXCEPT !.block = block, !.todo = block])]
       /\ UNCHANGED exceptIter

\* a later next() of a generator
NextCall ==
    \E g \in DOMAIN gens :
       /\ gens[g].state = "suspended"
       /\ gens' = [gens EXCEPT ![g] = Resume(pedersen, @)]
       /\ UNCHANGED <<client, requests, exceptIter>>

(***************************************************************************)
(* The specifications: one for each part of the program.                   *)
(***************************************************************************)
InitErr == StartErr /\ IdleChecksum /\ IdleReceipt /\ IdleCalls /\ IdleProvider
NextErr == HandleClientErrorCall
SpecErr == InitErr /\ [][NextErr]_vars

InitChecksum == StartChecksum /\ IdleErr /\ IdleReceipt /\ IdleCalls /\ IdleProvider
NextChecksum == ToChecksumCall \/ ToChecksumAgainCall
SpecChecksum == InitChecksum /\ [][NextChecksum]_vars

InitValid == StartValid /\ IdleErr /\ IdleReceipt /\ IdleCalls /\ IdleProvider
NextValid == ToChecksumCall \/ IsChecksumAddressCall
SpecValid == InitValid /\ [][NextValid]_vars

InitReceipt ==
    /\ StartReceipt
    /\ IdleErr
    /\ pedersen \in {p \in PedersenFamily : p.seed = 1 /\ p.len = 32}
    /\ csIn = PyNone /\ csOut = NotComputed /\ csAgain = NotComputed
    /\ icaIn = PyNone /\ icaOut = NotComputed
    /\ IdleCalls
    /\ IdleProvider
NextReceipt == GetReceiptCall
SpecReceipt == InitReceipt /\ [][NextReceipt]_vars

InitProvider == StartProvider /\ IdleErr /\ IdleChecksum /\ IdleReceipt /\ IdleCalls
NextProvider ==
    \/ GetBlockCall
    \/ GetCodeCall
    \/ GetNonceCall
    \/ ConnectCall
    \/ IsConnectedCall
    \/ DisconnectCall
SpecProvider == InitProvider /\ [][NextProvider]_vars

NextSend == SendTransactionCall \/ IsConnectedCall \/ DisconnectCall
SpecSend == InitProvider /\ [][NextSend]_vars

InitIter == StartIter /\ IdleErr /\ IdleChecksum /\ IdleReceipt /\ IdleCalls
NextIter == GetTransactionsByBlockCall \/ FirstNextCall \/ NextCall
SpecIter == InitIter /\ [][NextIter]_vars

InitTrace ==
    /\ StartTrace /\ IdleFn /\ IdleTokens /\ IdleErr /\ IdleChecksum /\ IdleReceipt /\ IdleCalls
    /\ client = FALSE /\ cached_code = <<>> /\ fetched = <<>> /\ out = [op |-> "idle"]
    /\ gens = <<>> /\ requests = <<>>
NextTrace == ExtractTraceDataCall
SpecTrace == InitTrace /\ [][NextTrace]_vars

InitFn ==
    /\ StartFn /\ IdleTrace /\ IdleTokens /\ IdleErr /\ IdleChecksum /\ IdleReceipt /\ IdleCalls
    /\ client = FALSE /\ cached_code = <<>> /\ fetched = <<>> /\ out = [op |-> "idle"]
    /\ gens = <<>> /\ requests = <<>>
NextFn == HandleClientErrorsCall
SpecFn == InitFn /\ [][NextFn]_vars

InitTokens ==
    /\ StartTokens /\ IdleFn /\ IdleTrace /\ IdleErr /\ IdleChecksum /\ IdleReceipt /\ IdleCalls
    /\ client = FALSE /\ cached_code = <<>> /\ fetched = <<>> /\ out = [op |-> "idle"]
    /\ gens = <<>> /\ requests = <<>>
NextTokens == AddTokenCall
SpecTokens == InitTokens /\ [][NextTokens]_vars

InitCalls == StartCalls /\ IdleErr /\ IdleChecksum /\ IdleReceipt /\ IdleProvider
NextCalls ==
    \/ CallOperation
    \/ ClientAnswers
    \/ ClientRaises
    \/ PropertyGivesClient
    \/ PropertyRaises
    \/ CheckPasses
    \/ CheckRaises
    \/ CallInner
    \/ Return
    \/ Unwind
    \/ Deliver
SpecCalls == InitCalls /\ [][NextCalls]_vars

(***************************************************************************)
(* The claims.                                                             *)
(***************************************************************************)
HceCalled == hceOut # NotCalled
HceRecognised == hceErr.kind \in ClientExceptions
HceMessage == StripClientPrefix(hceErr)

\* the text of s before its first line break, the whole of s without one
FirstLineOf(s) ==
    LET breaks == {i \in 1..Len(s) : s[i] \in LineBreaks}
    IN IF breaks = {} THEN s ELSE SubSeq(s, 1, MinOf(breaks) - 1)

IsExecuteTransaction ==
    /\ txn_info.cls = "InvokeTransaction"
    /\ txn_info.d.entry_point_selector = EXECUTE_SELECTOR

\* C1: get_receipt on an __execute__ transaction with calldata [1, INNER_ADDR,
\* INNER_SELECTOR, L, arg_0 .. arg_{L-1}] gives sender = the wrapper's address,
\* contract_address = checksum(INNER_ADDR), entry_point_selector = INNER_SELECTOR and
\* calldata = the L inner arguments.
C1_UnwrapRoundTrip ==
    LET cd == txn_info.d.calldata
    IN (/\ rcOut.done
        /\ IsExecuteTransaction
        /\ Len(cd) >= 4 /\ cd[1] = 1 /\ Len(cd) = 4 + cd[4])
       => /\ rcOut.exc = NoExc
          /\ rcOut.data["sender"] =
                ToChecksumAddress(pedersen, FeltAddress(txn_info.d.contract_address)).val
          /\ rcOut.data["contract_address"] = ToChecksumAddress(pedersen, FeltAddress(cd[2])).val
          /\ rcOut.data["entry_point_selector"] = cd[3]
          /\ rcOut.data["calldata"] = SubSeq(cd, 5, 4 + cd[4])

\* C2: get_receipt on an __execute__ transaction raises nothing whatever the calldata,
\* also with fewer than four felts or a call count other than 1, and a call count other
\* than 1 only logs one warning.
C2_UnwrapNeverRaises ==
    (rcOut.done /\ IsExecuteTransaction)
    => /\ rcOut.exc = NoExc
       /\ rcOut.warnings =
             (IF txn_info.d.calldata # <<>> /\ txn_info.d.calldata[1] # 1 THEN 1 ELSE 0)

\* C3: get_receipt on a transaction whose selector is not EXECUTE_SELECTOR, or that has
\* none, leaves contract_address, entry_point_selector, calldata and sender as
\* get_dict_from_tx_info gave them, raises nothing and logs nothing.
C3_NonExecutePassthrough ==
    LET txn_dict == GetDictFromTxInfo(pedersen, txn_info)
    IN (rcOut.done /\ ~IsExecuteTransaction)
       => /\ rcOut.exc = NoExc
          /\ rcOut.warnings = 0
          /\ \A k \in {"contract_address", "entry_point_selector", "calldata", "sender"} :
                /\ k \in DOMAIN rcOut.data <=> k \in DOMAIN txn_dict
                /\ k \in DOMAIN txn_dict => rcOut.data[k] = txn_dict[k]

\* C3's case: an invoke of another selector whose calldata could have been unwrapped
C3_Witness ==
    /\ rcOut.done
    /\ txn_info.cls = "InvokeTransaction"
    /\ txn_info.d.entry_point_selector # EXECUTE_SELECTOR
    /\ Len(txn_info.d.calldata) >= 5
    /\ rcOut.data["calldata"] = txn_info.d.calldata

\* C4: a ClientError or TransactionRejectedError whose message holds "Actual fee
\* exceeded max fee" is classified OutOfGas, whatever else the message holds.
C4_OutOfGasFirst ==
    (HceCalled /\ HceRecognised /\ Contains(hceErr.message.v, FeeMarker))
    => /\ ~hceOut.raised
       /\ hceOut.err.kind = "OutOfGasError"

\* C4's case: the message also holds "Error message:" and is classified OutOfGas
C4_Witness ==
    /\ HceCalled /\ HceRecognised
    /\ Contains(hceErr.message.v, FeeMarker)
    /\ Contains(HceMessage, ErrorMessageMarker)
    /\ hceOut.err.kind = "OutOfGasError"

\* C5: a message that holds "Error message:" (after the prefix strip, not out of gas)
\* gives ContractLogicError whose revert_message is the text after the FIRST
\* "Error message:", cut to its first line and trimmed.
C5_RevertMessageAfterFirstMarker ==
    (/\ HceCalled /\ HceRecognised
     /\ ~Contains(hceErr.message.v, FeeMarker)
     /\ Contains(HceMessage, ErrorMessageMarker))
    => /\ ~hceOut.raised
       /\ hceOut.err.kind = "ContractLogicError"
       /\ hceOut.err.message =
             PyStr(Strip(FirstLineOf(SplitOnceLast(HceMessage, ErrorMessageMarker))))

\* C6: the message "blah: Error message:\noops\nmore" gives ContractLogicError with
\* revert_message "oops".
C6_ReasonOnNextLine ==
    (/\ HceCalled /\ HceRecognised
     /\ hceErr.message.v = SegPrefix \o ErrorMessageMarker \o SegReasonNextLine)
    => /\ ~hceOut.raised
       /\ hceOut.err.kind = "ContractLogicError"
       /\ hceOut.err.message = PyStr(Oops)

\* C7: a message that matches none of the out-of-gas, "Error message:" and "Error at
\* pc=" rules always gives ProviderError: with the `message` of the JSON object the
\* trimmed message is, with the trimmed message otherwise; nothing is raised.
C7_ProviderErrorFallback ==
    LET trimmed == Strip(HceMessage)
        d == Loads(trimmed)
    IN (/\ HceCalled /\ HceRecognised
        /\ ~Contains(hceErr.message.v, FeeMarker)
        /\ ~Contains(HceMessage, ErrorMessageMarker)
        /\ ~Contains(HceMessage, ErrorAtPcMarker))
       => /\ ~hceOut.raised
          /\ hceOut.err.kind = "StarknetProviderError"
          /\ hceOut.err.message =
                (IF d.ok /\ d.val.t = "dict" /\ DictHas(d.val, MessageKey)
                 THEN DictGet(d.val, MessageKey)
                 ELSE PyStr(trimmed))

\* C8: an exception is classified once at most: every handle_client_errors after the
\* innermost one raises the object it was given, the caller gets the object the
\* innermost one raised, and an exception that is neither ClientError nor
\* TransactionRejectedError is raised as it is.
C8_NeverReclassified ==
    /\ \A k \in 1..Len(classified) :
          classified[k].in.kind \notin ClientExceptions => classified[k].out = classified[k].in
    /\ \A k \in 2..Len(classified) : classified[k].out = classified[k].in
    /\ (delivered.done /\ classified # <<>>) => delivered.exc = classified[1].out

\* C8's case: a client exception classified in an inner decorated operation reaches the
\* caller through the decorator of the outer one
C8_Witness ==
    /\ delivered.done
    /\ Len(classified) >= 2
    /\ classified[1].in.kind \in ClientExceptions
    /\ classified[1].out.kind \in ClassifiedErrors
    /\ delivered.exc = classified[1].out

\* C9: whatever operation of the provider the caller invoked - get_nonce,
\* estimate_gas_cost, get_block, send_call, get_receipt, send_transaction, get_code,
\* get_abi, get_code_and_abi, get_transactions_by_block - the caller never receives the
\* raw ClientError or TransactionRejectedError.
C9_NoRawClientException ==
    (/\ delivered.done
     /\ entry[1] \in {"get_nonce", "estimate_gas_cost", "get_block", "send_call",
                      "get_receipt", "send_transaction", "get_code", "get_abi",
                      "get_code_and_abi", "get_transactions_by_block"})
    => delivered.exc.kind \notin ClientExceptions

\* C10: to_checksum_address is idempotent, to_checksum_address(to_checksum_address(a))
\* = to_checksum_address(a) for an address a given as int, bytes or hex string, and an
\* address that passes is_checksum_address is returned as it is.
C10_Idempotent ==
    /\ csAgain # NotComputed => csAgain = csOut
    /\ (csOut # NotComputed /\ csOut.exc = "none" /\ IsChecksumAddress(pedersen, csIn).val)
       => csOut.val = csIn

\* C10's case: the checksum of an int has an uppercase digit and was checksummed again
C10_Witness ==
    /\ csAgain # NotComputed
    /\ csIn.t = "int"
    /\ \E i \in 1..Len(csOut.val.v) : csOut.val.v[i] \in {"A", "F"}

\* C11: is_checksum_address holds of every address to_checksum_address returns, and
\* fails, without raising, once the case of any one letter of that address is changed.
C11_ChecksumValidity ==
    (icaOut.exc # "notcomputed" /\ csOut.exc = "none")
    => /\ icaIn = csOut.val => (icaOut.exc = "none" /\ icaOut.val = TRUE)
       /\ icaIn \in CaseFlips(csOut.val) => (icaOut.exc = "none" /\ icaOut.val = FALSE)

\* C11's case: an uppercase letter of a checksummed address was made lowercase
C11_Witness ==
    /\ icaOut.exc = "none" /\ icaOut.val = FALSE
    /\ csOut.exc = "none"
    /\ icaIn \in CaseFlips(csOut.val)
    /\ \E i \in 3..Len(icaIn.v) : icaIn.v[i] = "a" /\ csOut.val.v[i] = "A"

\* C12: is_checksum_address raises nothing, and gives false for every value that is not
\* the checksummed address of its own number: the empty string, "0x", values that are
\* no text, strings with a character that is no hex digit.
C12_InvalidIsFalseNeverRaises ==
    icaOut.exc # "notcomputed"
    => /\ icaOut.exc = "none"
       /\ (\/ ~IsText(icaIn)
           \/ Remove0xPrefix(icaIn.v) = <<>>
           \/ \E i \in 1..Len(icaIn.v) : icaIn.v[i] \notin HexChars \cup {"x"})
          => icaOut.val = FALSE

\* C13: get_block(n) with n < 0, the latest block at the height H, asks for the block
\* H + n + 1 if that is >= 0, and raises the not-found StarknetProviderError without
\* another request if it is < 0.
C13_NegativeBlockId ==
    (/\ out.op = "get_block" /\ out.arg.t = "int" /\ out.arg.v < 0
     /\ out.log # <<>> /\ out.log[1].ok)
    => LET resolved == out.latest + out.arg.v + 1
       IN /\ out.log[1].arg = "latest"
          /\ IF resolved >= 0
             THEN /\ out.exc.why # "not found"
                  /\ out.exc.why # "not connected"
                     => Len(out.log) = 2 /\ out.log[2].arg = resolved
                  /\ out.exc.kind = "none" => out.log[2].ok
             ELSE /\ out.exc = [kind |-> "StarknetProviderError", why |-> "not found"]
                  /\ Len(out.log) = 1

\* C13's case: get_block(-1) got the latest block, the one at MaxHeight
C13_Witness ==
    /\ out.op = "get_block" /\ out.arg.t = "int" /\ out.arg.v = 0 - 1
    /\ out.latest = MaxHeight
    /\ out.exc.kind = "none"
    /\ Len(out.log) = 2 /\ out.log[2].arg = MaxHeight

\* C14: get_code returns the bytecode of the address when that is not empty and the
\* codes of "PROXY" otherwise, never an empty value.
C14_GetCodeNeverEmpty ==
    (out.op = "get_code" /\ out.exc.kind = "none")
    => /\ out.val # <<>>
       /\ out.val = (IF cached_code[out.address_int].bytecode # <<>>
                     THEN cached_code[out.address_int].bytecode ELSE PROXY)

\* C14's case: get_code of a contract without bytecode
C14_Witness ==
    /\ out.op = "get_code" /\ out.exc.kind = "none"
    /\ cached_code[out.address_int].bytecode = <<>>
    /\ out.val = PROXY

\* C15: get_code_sync answers once at most for one address; a call for an address the
\* cache holds, however the address is written, makes no request and gives what the
\* cache holds; the cache never loses or changes an entry.
C15_CodeFetchedOnce ==
    /\ [](/\ \A a \in DOMAIN fetched : fetched[a] <= 1
          /\ (out.op \in {"get_code", "get_abi", "get_code_and_abi"} /\ out.hit)
             => /\ out.log = <<>>
                /\ out.exc.kind = "none"
                /\ out.op = "get_code_and_abi" => out.val = cached_code[out.address_int]
                /\ out.op = "get_abi" => out.val = cached_code[out.address_int].abi)
    /\ [][\A a \in DOMAIN cached_code :
             a \in DOMAIN cached_code' /\ cached_code'[a] = cached_code[a]]_vars

\* C15's case: the code of an address written as a checksummed string came from the cache
C15_Witness ==
    /\ out.op = "get_code_and_abi" /\ out.hit
    /\ out.arg.t = "str" /\ Len(out.arg.v) = PadLength
    /\ fetched[out.address_int] = 1
    /\ out.log = <<>>

\* C16: send_transaction submits the transaction once; a response whose code is not
\* TRANSACTION_RECEIVED gives TransactionError and neither wait nor fetch; otherwise it
\* waits for the response's hash, then fetches the transaction, then the receipt, of
\* that hash, and returns that receipt.
C16_SendThenWaitThenFetch ==
    out.op = "send_transaction"
    => LET names == [i \in 1..Len(out.log) |-> out.log[i].n]
           order == <<"send_transaction_sync", "wait_for_tx_sync", "get_transaction_sync",
                      "get_transaction_receipt_sync">>
           sent == out.log # <<>> /\ out.log[1].ok
       IN /\ names = SubSeq(order, 1, Len(names))
          /\ out.exc.why \notin {"unsupported", "not connected"} => out.log # <<>>
          /\ \A i \in 2..Len(out.log) : out.log[i].arg = out.response.transaction_hash
          /\ (sent /\ out.response.code # "TRANSACTION_RECEIVED")
             => /\ out.exc = [kind |-> "TransactionError", why |-> "not received"]
                /\ Len(out.log) = 1
          /\ out.exc.kind = "TransactionError" => Len(out.log) = 1
          /\ out.exc.kind = "none"
             => /\ names = order
                /\ out.response.code = "TRANSACTION_RECEIVED"
                /\ out.val.receipt_of = out.response.transaction_hash

\* C16's case: the transaction was received and its receipt returned
C16_Witness ==
    /\ out.op = "send_transaction" /\ out.exc.kind = "none"
    /\ Len(out.log) = 4
    /\ out.val.receipt_of = 2

\* C18: is_connected raises nothing and is true exactly when urlopen answered or
\* raised HTTPError 404; when urlopen answered and the provider held no client, it
\* holds one afterwards.
C18_IsConnected ==
    out.op = "is_connected"
    => /\ out.exc.kind = "none"
       /\ out.val = (out.arg \in {"answer", "HTTPError 404"})
       /\ (out.arg = "answer" /\ ~out.had_client) => client

\* C18's case: HTTPError 404 counted as connected
C18_Witness ==
    /\ out.op = "is_connected"
    /\ out.arg = "HTTPError 404"
    /\ out.val = TRUE

\* C17: a generator get_transactions_by_block returned makes no request before its
\* first next(); iterated, it has asked for its block once and yields the normalized
\* transactions of that block, one each, in the block's order, then ends; another call
\* gives a generator with a request and a block of its own.
C17_LazyPerCallIteration ==
    \A g \in DOMAIN gens :
       LET mine == SelectSeq(requests, LAMBDA e : e.by = g)
       IN /\ gens[g].state = "created" => mine = <<>>
          /\ Len(mine) <= 1
          /\ gens[g].state \in {"suspended", "done"}
             => /\ Len(mine) = 1 /\ mine[1].ok
                /\ mine[1].n = "get_block_sync" /\ mine[1].arg = gens[g].block_id.v
                /\ Len(gens[g].yielded) + Len(gens[g].todo) = Len(gens[g].block)
                /\ \A i \in 1..Len(gens[g].yielded) :
                      gens[g].yielded[i] = GetDictFromTxInfo(pedersen, gens[g].block[i])
          /\ gens[g].state = "suspended" => gens[g].yielded # <<>>
          /\ gens[g].state = "done" => Len(gens[g].yielded) = Len(gens[g].block)

\* C17's case: two generators, the first one run to its end over a block of two
\* transactions while the second has not been asked for an item
C17_Witness ==
    /\ Len(gens) = 2
    /\ gens[1].state = "done" /\ Len(gens[1].yielded) = 2
    /\ gens[2].state = "created"
    /\ Len(requests) = 1

\* C19: extract_trace_data gives the result of the last internal call when there are
\* internal calls and that result is not empty, and the top-level result in every
\* other case: internal results [1] and [2,3] under the top-level [9,2,3] give [2,3],
\* no internal calls under [5] give [5]; with no trace the value is empty.
C19_TraceSelection ==
    trOut.calls > 0
    => LET t == trOut.of
           n == Len(t.internal_calls)
       IN /\ ~t.supplied => trOut.val.keys = {}
          /\ (t.supplied /\ n > 0 /\ t.internal_calls[n].result # <<>>)
             => trOut.val.result = t.internal_calls[n].result
          /\ (t.supplied /\ (n = 0 \/ t.internal_calls[n].result = <<>>))
             => trOut.val.result = t.result
          /\ (t.supplied /\ t.result = <<9, 2, 3>>
              /\ t.internal_calls = <<[result |-> <<1>>], [result |-> <<2, 3>>]>>)
             => trOut.val.result = <<2, 3>>
          /\ (t.supplied /\ t.result = <<5>> /\ n = 0) => trOut.val.result = <<5>>

\* C19's case: the last of two internal calls wins over the first and the top level
C19_Witness ==
    /\ trOut.calls = 1
    /\ trOut.of.supplied /\ trOut.of.result = <<9, 2, 3>>
    /\ trOut.of.internal_calls = <<[result |-> <<1>>], [result |-> <<2, 3>>]>>
    /\ trOut.val.result = <<2, 3>>

\* C20: a decorated function that returns a dict with a truthy error entry gives the
\* caller a ProviderError whose message is the entry's message, or "Transaction
\* failed" when that is missing or empty; any other value returned is handed on as
\* it is.
C20_ErrorEntryGivesProviderError ==
    fnBody.exc.kind = "none"
    => IF fnBody.result.t = "dict" /\ Truthy(DictGetOrNone(fnBody.result, ErrorKey))
       THEN LET error == DictGet(fnBody.result, ErrorKey)
                message == IF error.t = "dict" THEN DictGetOrNone(error, MessageKey)
                           ELSE PyNone
            IN /\ fnOut.raised
               /\ fnOut.err.kind = "StarknetProviderError"
               /\ fnOut.err.message.v = IF Truthy(message) THEN message.v
                                        ELSE TransactionFailed
       ELSE ~fnOut.raised /\ fnOut.result.t = fnBody.result.t
                          /\ fnOut.result.v = fnBody.result.v

\* C21: handle_client_error, given a ClientError or a TransactionRejectedError of any
\* message, returns an OutOfGasError, a ContractLogicError or a StarknetProviderError
\* and raises nothing of its own.
C21_HandleClientErrorTotal ==
    (HceCalled /\ HceRecognised)
    => /\ ~hceOut.raised
       /\ hceOut.err.kind \in ClassifiedErrors

\* C22: the token send_transaction hands to send_transaction_sync is its token argument
\* when that is not empty, the transaction's own token when there is no argument, and
\* the environment's token when there is neither.
C22_TokenPrecedence ==
    (out.op = "send_transaction" /\ out.log # <<>>)
    => out.log[1].arg.token =
          IF Truthy(out.token) THEN out.token
          ELSE IF out.txn_token.has /\ Truthy(out.txn_token.v) THEN out.txn_token.v
          ELSE out.env

\* C23: the block a generator of get_transactions_by_block(block_id) asks the client
\* for is the block get_block(block_id) asks for, at some height of the latest block;
\* a negative int is resolved against the latest height before the block is asked for.
C23_SameBlockAsGetBlock ==
    \A g \in DOMAIN gens :
       gens[g].state \in {"suspended", "done"}
       => LET mine == SelectSeq(requests, LAMBDA e : e.by = g)
          IN \E latest \in 0..MaxHeight :
                LET plan == GetBlockPlan(gens[g].block_id, latest)
                IN /\ plan[Len(plan)].k = "req"
                   /\ mine[Len(mine)].arg = plan[Len(plan)].arg

\* C24: disconnect leaves no client, also when there was none, and raises nothing;
\* without a client an operation on connected_client raises ProviderNotConnectedError
\* and asks nothing; no client appears but by connect or by a probe that succeeded
\* (is_connected itself, or the one an operation on starknet_client makes), a
\* client goes away by disconnect only, a probe that failed leaves the client as it
\* was, and a probe that succeeded with a client held makes no other.
C24_HandleLifecycle ==
    /\ [](/\ out.op = "disconnect" => (~client /\ out.exc.kind = "none")
          /\ (out.op = "get_nonce" /\ ~out.had_client)
             => (out.exc.kind = "ProviderNotConnectedError" /\ out.log = <<>> /\ ~client)
          /\ (out.op = "is_connected" /\ ~out.val) => (client = out.had_client /\ ~out.created)
          /\ (out.op = "is_connected" /\ out.had_client) => (client /\ ~out.created))
    /\ [][(~client /\ client')
          => \/ out'.op = "connect"
             \/ out'.op = "is_connected" /\ out'.val
             \/ out'.op \in {"get_block", "get_code", "get_abi", "get_code_and_abi"}]_vars
    /\ [][(client /\ ~client') => out'.op = "disconnect"]_vars

\* C24's case: a probe that succeeded while a client was held, after a disconnect and a
\* connect
C24_Witness ==
    /\ out.op = "is_connected" /\ out.val /\ out.had_client /\ client

\* C25: a get_code_and_abi (get_code, get_abi) that raised, the probe or the request
\* having failed, leaves cached_code as it was, with no entry for its address, and the
\* next call for an address without an entry asks the client again; a call for an
\* address that has an entry asks nothing and raises nothing, with or without a client.
C25_FailedFetchLeavesCache ==
    /\ [](out.op \in {"get_code", "get_abi", "get_code_and_abi"}
          => /\ out.exc.kind # "none"
                => (~out.hit /\ ~(out.address_int \in DOMAIN cached_code))
             /\ (~out.hit /\ out.exc.why # "not connected") => Len(out.log) = 1
             /\ out.hit => (out.log = <<>> /\ out.exc.kind = "none"))
    /\ [][(out'.op \in {"get_code", "get_abi", "get_code_and_abi"} /\ out'.exc.kind # "none")
          => cached_code' = cached_code]_vars

\* C25's case: the request for an address raised while the cache held another address
C25_Witness ==
    /\ out.op = "get_code_and_abi" /\ out.exc.kind # "none"
    /\ Len(out.log) = 1 /\ ~out.log[1].ok
    /\ cached_code # <<>>
    /\ ~(out.address_int \in DOMAIN cached_code)

\* C26: after add_token(name, network, address) the address is a token on that
\* network and the name gives it; an address that is a token on a network before an
\* add_token call, a built-in one included, is a token on that network after it; an
\* address no name holds for the provider's network is no token.
C26_TokenRegistrationMonotone ==
    /\ [](/\ tkOut.op = "add_token"
             => /\ IsToken(additional_tokens, tkOut.network, tkOut.address)
                /\ TokenAddress(additional_tokens, tkOut.network, tkOut.name) = tkOut.address
          /\ \A address \in TokenAddresses \cup {"contract"} :
                IsToken(additional_tokens, network, address)
                => \E name \in DOMAIN additional_tokens :
                      /\ network \in DOMAIN additional_tokens[name]
                      /\ additional_tokens[name][network] = address)
    /\ [][\A net \in Networks,
             address \in TokenAddresses \cup {"local_eth", "live_eth", "live_token"} :
             IsToken(additional_tokens, net, address)
             => IsToken(additional_tokens', net, address)]_vars

====
